---- MODULE Spec2Model ----
(***************************************************************************)
(* Navigation core of iso-game: the Character3D motion controller (final   *)
(* version, with moveAlongPath), and the click / path-planning / obstacle  *)
(* logic of IsoScene and TopDownScene.                                     *)
(*                                                                         *)
(* Numbers.  The program computes in IEEE doubles; the model computes in   *)
(* fixed point.  Lengths are integers in units of 1/PosScale pixel, angles *)
(* are integers in thousandths of a degree, a frame's deltaTime is an      *)
(* integer number of 1/DtScale seconds.  Square roots and quotients are    *)
(* rounded to the nearest unit where the program rounds to the nearest     *)
(* double.  Grid cells are exact integers.                                 *)
(***************************************************************************)
EXTENDS Integers, Sequences, FiniteSets, TLC

VARIABLES
  \* ---- Character3D fields (src/unnamed/part_001:12-26)
  currentX, currentY,        \* current world position
  targetX, targetY,          \* movement target
  isMoving,                  \* movement flag
  path,                      \* waypoints, a sequence of <<x, y>>
  currentPathIndex,          \* 0-based index into path
  finalTargetPosition,       \* <<x, y>>, or Null
  currentRotationY,          \* current facing angle
  targetRotationY,           \* target facing angle
  \* ---- observation of the calls made on the character (history only)
  updateResult,              \* what the last update() returned: "none", "true", "false"
  lastOp,                    \* name of the last Character3D method called
  lastPath,                  \* waypoints stored by the last moveAlongPath call; <<>> once
                             \* setPosition or moveTo has been called after it
  pathStart,                 \* position at the last moveAlongPath call
  ticks,                     \* update() calls since the last moveAlongPath, up to and
                             \* including the first that returned false (saturates)
  runDt,                     \* deltaTime of those calls: 0 none yet, -1 if they differ
  prevPath,                  \* this.path just before the last moveAlongPath call
  wasMoving,                 \* this.isMoving just before the last moveAlongPath call
  arrived                    \* update() has run its arrival branch, and neither a move
                             \* nor rotateTowardsPosition has been called since

charFields == <<currentX, currentY, targetX, targetY, isMoving, path,
                currentPathIndex, finalTargetPosition, currentRotationY,
                targetRotationY>>
charHistory == <<updateResult, lastOp, lastPath, pathStart, ticks, runDt,
                 prevPath, wasMoving, arrived>>
charVars == <<charFields, charHistory>>

VARIABLES
  cmds                       \* calls other than update() made so far (bounded)

VARIABLES
  \* ---- the scene (IsoScene.ts:8-25, TopDownScene.ts:5-17)
  scene,                     \* "IsoScene", "TopDownScene", or "none": no scene
  pc,                        \* "constructor", "ready", or inside updateScreenSize
  screenWidth, screenHeight,
  sceneX, sceneY,            \* this.x, this.y: the offset of the scene on the screen
  tileSize,
  extendedGridSize,
  grid,                      \* this.grid: [size, blocked]
  tiles,                     \* IsoScene.tiles: [size, gen], the tiles of createGrid
  obstacles,                 \* IsoScene.obstacles, in insertion order
  obstaclePositions,         \* TopDownScene.obstaclePositions
  obstacleCubes,             \* IsoScene.obstacleCubes: the cells of the cubes, in order
  cubesGen,                  \* counts the calls of createObstacleCubes
  selectedCube,              \* Null, or <<cell, cubesGen when selected>>
  selectedTile,              \* Null, or <<cell, tiles.gen when selected>>
  selectedTileKey,           \* Null, or the cell
  adjacentTiles,             \* sequence of <<cell, tiles.gen>>
  placed, attempts,          \* the counters of the obstacle generator while it runs
  draws,                     \* history: the iterations of the running generator loop
  \* ---- observation of the scene (history only)
  spawn,                     \* the world position where the character was created
  generated,                 \* the centre cell the last obstacle generation kept clear
  lastClick,                 \* what the last handleClick resolved and did
  ticksSinceClick,           \* update() calls since the last handleClick (0, 1, 2 = more)
  sceneOp,                   \* the last method of the scene that ran
  \* ---- IsoUtils called on its own
  conv                       \* a function applied on its own: [stage, arguments, result]

screenVars == <<screenWidth, screenHeight, sceneX, sceneY>>
gridVars == <<tileSize, extendedGridSize, grid, tiles>>
obstacleVars == <<obstacles, obstaclePositions, obstacleCubes, cubesGen>>
selectionVars == <<selectedCube, selectedTile, selectedTileKey, adjacentTiles>>
generatorVars == <<placed, attempts, draws>>
sceneHistory == <<spawn, generated, lastClick, ticksSinceClick>>
sceneVars == <<scene, pc, screenVars, gridVars, obstacleVars, selectionVars,
               generatorVars, sceneHistory, sceneOp, conv>>

vars == <<charVars, cmds, sceneVars>>

-----------------------------------------------------------------------------
(* Fixed-point arithmetic                                                  *)

\* Units per pixel of every length (positions are JavaScript numbers).
PosScale == 100
\* deltaTime is counted in 1/DtScale seconds.
DtScale == 6000
\* Math.PI, in thousandths of a degree.
Pi == 180000

Null == <<>>

Abs(a) == IF a < 0 THEN -a ELSE a
Min(a, b) == IF a < b THEN a ELSE b
Max(a, b) == IF a > b THEN a ELSE b
Sign(a) == IF a < 0 THEN -1 ELSE IF a > 0 THEN 1 ELSE 0

\* a / b rounded to the nearest integer (b > 0), halves away from zero.
RoundDiv(a, b) == Sign(a) * ((2 * Abs(a) + b) \div (2 * b))
\* ceil(a / b) for a >= 0, b > 0.
CeilDiv(a, b) == (a + b - 1) \div b

RECURSIVE SqrtSearch(_, _, _)
SqrtSearch(n, lo, hi) ==
  IF lo >= hi THEN lo
  ELSE LET mid == (lo + hi + 1) \div 2
       IN  IF mid * mid <= n THEN SqrtSearch(n, mid, hi)
           ELSE SqrtSearch(n, lo, mid - 1)
\* floor(sqrt(n)).
FloorSqrt(n) == SqrtSearch(n, 0, Min(n, 46340))
\* Math.sqrt(n) rounded to the nearest unit.
Sqrt(n) == LET r == FloorSqrt(n) IN IF n - r * r > r THEN r + 1 ELSE r
\* The least integer >= sqrt(n).
CeilSqrt(n) == LET r == FloorSqrt(n) IN IF r * r = n THEN r ELSE r + 1

-----------------------------------------------------------------------------
(* Character3D: constants                                                  *)

\* moveSpeed, pixels per second.
moveSpeed == 6000
\* rotationSpeed and mouseRotationSpeed, in hundredths.
rotationSpeed == 15
mouseRotationSpeed == 40
\* The 0.1 pixel threshold of update, moveTo, calculateIsoRotation and
\* rotateTowardsPosition.
ArrivalEps == PosScale \div 10
\* The 0.01 radian threshold of updateRotation, in thousandths of a degree.
RotationEps == 573

\* Mutant of MoveStep: the frame-based step of the earlier version (moveSpeed 0.03),
\* which ignores deltaTime.
MoveStepFrameBased(dt) == (3 * PosScale) \div 100

\* speed * deltaTime, in length units.
MoveStep(dt) == (moveSpeed * dt * PosScale) \div DtScale

-----------------------------------------------------------------------------
(* Angles                                                                  *)

\* Math.atan(y / x) for 0 <= y <= x, x > 0: the arctangent, by the quadratic
\* approximation z * 45 + z * (1 - z) * 15.642 degrees (error below 0.25 degree).
AtanUnit(y, x) ==
  LET z == (y * 1000) \div x
  IN  45 * z + (15642 * ((z * (1000 - z)) \div 1000)) \div 1000

\* Math.atan2(dy, dx).
Atan2(dy, dx) ==
  LET ax == Abs(dx)
      ay == Abs(dy)
      base == IF ax = 0 /\ ay = 0 THEN 0
              ELSE IF ax >= ay THEN AtanUnit(ay, ax)
              ELSE (Pi \div 2) - AtanUnit(ax, ay)
      a == IF dx >= 0 THEN base ELSE Pi - base
  IN  IF dy < 0 THEN -a ELSE a

\* while (a > PI) a -= 2 PI; while (a < -PI) a += 2 PI
RECURSIVE NormalizeAngle(_)
NormalizeAngle(a) ==
  IF a > Pi THEN NormalizeAngle(a - 2 * Pi)
  ELSE IF a < -Pi THEN NormalizeAngle(a + 2 * Pi)
  ELSE a

\* Character3D.calculateIsoRotation; cur is this.targetRotationY.
calculateIsoRotation(dx, dy, cur) ==
  IF dx * dx + dy * dy < ArrivalEps * ArrivalEps THEN cur
  ELSE LET angle == Atan2(dy, dx)
           isTopLeft == dx < 0 /\ dy < 0
           isBottomRight == dx > 0 /\ dy > 0
           isometricAngle == AtanUnit(1, 2)
           shifted == IF isTopLeft \/ isBottomRight
                      THEN angle + isometricAngle + (Pi \div 6) + (Pi \div 36)
                      ELSE angle + isometricAngle
       IN  NormalizeAngle(-shifted + Pi)

\* The four main directions of snapToMainDirection.
mainDirections == <<0, Pi \div 2, Pi, (3 * Pi) \div 2>>

\* while (t < 0) t += 2 PI; while (t >= 2 PI) t -= 2 PI
RECURSIVE NormalizePositive(_)
NormalizePositive(t) ==
  IF t < 0 THEN NormalizePositive(t + 2 * Pi)
  ELSE IF t >= 2 * Pi THEN NormalizePositive(t - 2 * Pi)
  ELSE t

\* The loop of snapToMainDirection from direction i on; st = <<nearest, smallestDiff>>.
RECURSIVE SnapLoop(_, _, _)
SnapLoop(normalizedTarget, i, st) ==
  IF i > Len(mainDirections) THEN st[1]
  ELSE LET direction == mainDirections[i]
           diff1 == Abs(normalizedTarget - direction)
           diff2 == Abs(normalizedTarget - (direction + 2 * Pi))
           diff3 == Abs(normalizedTarget - (direction - 2 * Pi))
           diff == Min(diff1, Min(diff2, diff3))
       IN  SnapLoop(normalizedTarget, i + 1,
                    IF diff < st[2] THEN <<direction, diff>> ELSE st)

\* Mutant of snapToMainDirection: the angle is kept as it is.
snapToMainDirectionKept(tgt) == tgt

\* Character3D.snapToMainDirection: the direction both angles are set to.
snapToMainDirection(tgt) ==
  SnapLoop(NormalizePositive(tgt), 1, <<mainDirections[1], Abs(tgt - mainDirections[1])>>)

\* Mutant of updateRotation: the difference is not brought to the shortest arc.
updateRotationLongArc(cur, tgt, moving) ==
  LET diff == tgt - cur
      speed == IF moving THEN rotationSpeed ELSE mouseRotationSpeed
      next == IF Abs(diff) < RotationEps THEN tgt
              ELSE cur + RoundDiv(diff * speed, 100)
  IN  NormalizeAngle(next)

\* Character3D.updateRotation: the new currentRotationY.
updateRotation(cur, tgt, moving) ==
  LET diff == NormalizeAngle(tgt - cur)
      speed == IF moving THEN rotationSpeed ELSE mouseRotationSpeed
      next == IF Abs(diff) < RotationEps THEN tgt
              ELSE cur + RoundDiv(diff * speed, 100)
  IN  NormalizeAngle(next)

-----------------------------------------------------------------------------
(* Character3D: methods.  Each is an action on the character's variables.  *)

(* Bounds of the callers of the character (used from "The character on its own"). *)

\* Calls other than update() in one behaviour.
MaxCmds == 2
\* Waypoints per path handed to moveAlongPath.
MaxPathLen == 2
\* The world points used as arguments: a lattice of (MaxCoord + 1) x 2 points.
MaxCoord == 1
\* Distance between neighbouring lattice points, in pixels.
Spacing == 20

\* Frame times, in 1/DtScale s: 1/600 s and 1/60 s.
DeltaTimes == {10, 100}

\* More update() calls than any path of the callers below needs: per waypoint, the
\* steps of the longest leg at the smallest frame time, and one call more.
MaxTicks ==
  LET diagonal == CeilSqrt(2 * ((MaxCoord + 1) * Spacing * PosScale)
                             * ((MaxCoord + 1) * Spacing * PosScale))
      minStep == (moveSpeed * 10 * PosScale) \div DtScale
  IN  MaxPathLen * (CeilDiv(diagonal, minStep) + 1) + 2

\* The update() counter kept for the claims stops at MaxTicks.
Tick(n) == IF n < MaxTicks THEN n + 1 ELSE n

\* Character3D constructor: the field initialisers.
CharInit ==
  /\ currentX = 0 /\ currentY = 0
  /\ targetX = 0 /\ targetY = 0
  /\ isMoving = FALSE
  /\ path = <<>>
  /\ currentPathIndex = 0
  /\ finalTargetPosition = Null
  /\ currentRotationY = 0
  /\ targetRotationY = 0
  /\ updateResult = "none"
  /\ lastOp = "constructor"
  /\ lastPath = <<>>
  /\ pathStart = <<0, 0>>
  /\ ticks = 0
  /\ runDt = 0
  /\ prevPath = <<>>
  /\ wasMoving = FALSE
  /\ arrived = FALSE

\* Mutant of setPosition: the movement target is left where it was.
setPositionKeepTarget(x, y) ==
  /\ currentX' = x /\ currentY' = y
  /\ isMoving' = FALSE
  /\ lastOp' = "setPosition"
  /\ lastPath' = <<>>
  /\ UNCHANGED <<targetX, targetY, path, currentPathIndex, finalTargetPosition,
                 currentRotationY, targetRotationY, updateResult, pathStart, ticks,
                 runDt, prevPath, wasMoving, arrived>>

\* Character3D.setPosition(x, y)
setPosition(x, y) ==
  /\ currentX' = x /\ currentY' = y
  /\ targetX' = x /\ targetY' = y
  /\ isMoving' = FALSE
  /\ lastOp' = "setPosition"
  /\ lastPath' = <<>>
  /\ UNCHANGED <<path, currentPathIndex, finalTargetPosition, currentRotationY,
                 targetRotationY, updateResult, pathStart, ticks, runDt,
                 prevPath, wasMoving, arrived>>

\* Character3D.moveTo(x, y)
moveTo(x, y) ==
  LET dx == x - currentX
      dy == y - currentY
  IN  /\ targetX' = x /\ targetY' = y
      /\ isMoving' = TRUE
      /\ path' = <<>>
      /\ currentPathIndex' = 0
      /\ targetRotationY' =
           IF Abs(dx) > ArrivalEps \/ Abs(dy) > ArrivalEps
           THEN calculateIsoRotation(dx, dy, targetRotationY)
           ELSE targetRotationY
      /\ lastOp' = "moveTo"
      /\ lastPath' = <<>>
      /\ arrived' = FALSE
      /\ UNCHANGED <<currentX, currentY, finalTargetPosition, currentRotationY,
                     updateResult, pathStart, ticks, runDt, prevPath, wasMoving>>

\* The arguments of moveAlongPath.  A path argument is [fmt, pts]: fmt "tuples" for
\* Array<[number, number]>, "points" for Array<{x, y}>; pts the coordinate pairs.
\* The second argument is [tag, num, pt]: tag "number" (a tile size, num),
\* "object" (a final target, pt) or "undefined".
Undefined == [tag |-> "undefined", num |-> 0, pt |-> Null]
NumberArg(n) == [tag |-> "number", num |-> n, pt |-> Null]
ObjectArg(q) == [tag |-> "object", num |-> 0, pt |-> q]

\* The waypoints moveAlongPath stores: grid tuples are converted with the tile
\* size, points are copied.
ConvertPath(p, arg2) ==
  IF arg2.tag = "number" /\ Len(p.pts) > 0 /\ p.fmt = "tuples"
  THEN [i \in 1..Len(p.pts) |->
          <<p.pts[i][1] * arg2.num + arg2.num \div 2,
            p.pts[i][2] * arg2.num + arg2.num \div 2>>]
  ELSE p.pts

\* The final target moveAlongPath stores.
ConvertFinalTarget(arg2, finalTarget) ==
  IF arg2.tag = "number" THEN finalTarget
  ELSE IF arg2.tag = "object" THEN arg2.pt
  ELSE finalTarget

\* Mutant of ReplacePath: the new waypoints are queued behind the old ones.
ReplacePathQueued(old, new) == old \o new

\* moveAlongPath assigns this.path: the new waypoints replace the old ones.
ReplacePath(old, new) == new

\* Mutant of moveAlongPath: without the guard on an empty list, which then
\* clears the path and sets the moving flag.
moveAlongPathUnguarded(p, arg2, finalTarget) ==
  LET newPath == ConvertPath(p, arg2)
  IN  /\ finalTargetPosition' = ConvertFinalTarget(arg2, finalTarget)
      /\ path' = newPath
      /\ currentPathIndex' = 0
      /\ isMoving' = TRUE
      /\ targetX' = IF newPath = <<>> THEN targetX ELSE newPath[1][1]
      /\ targetY' = IF newPath = <<>> THEN targetY ELSE newPath[1][2]
      /\ lastOp' = IF newPath = <<>> THEN "moveAlongPath(empty)" ELSE "moveAlongPath"
      /\ lastPath' = newPath
      /\ pathStart' = <<currentX, currentY>>
      /\ ticks' = 0
      /\ runDt' = 0
      /\ prevPath' = path
      /\ wasMoving' = isMoving
      /\ arrived' = FALSE
      /\ UNCHANGED <<currentX, currentY, currentRotationY, targetRotationY,
                     updateResult>>

\* Character3D.moveAlongPath(path, tileSizeOrTarget, finalTarget)
moveAlongPath(p, arg2, finalTarget) ==
  IF Len(p.pts) = 0
  THEN /\ lastOp' = "moveAlongPath(empty)"
       /\ UNCHANGED <<charFields, updateResult, lastPath, pathStart, ticks, runDt,
                      prevPath, wasMoving, arrived>>
  ELSE LET newPath == ConvertPath(p, arg2)
       IN  /\ finalTargetPosition' = ConvertFinalTarget(arg2, finalTarget)
           /\ path' = ReplacePath(path, newPath)
           /\ currentPathIndex' = 0
           /\ isMoving' = TRUE
           /\ targetX' = path'[1][1]
           /\ targetY' = path'[1][2]
           /\ lastOp' = "moveAlongPath"
           /\ lastPath' = newPath
           /\ pathStart' = <<currentX, currentY>>
           /\ ticks' = 0
           /\ runDt' = 0
           /\ prevPath' = path
           /\ wasMoving' = isMoving
           /\ arrived' = FALSE
           /\ UNCHANGED <<currentX, currentY, currentRotationY, targetRotationY,
                          updateResult>>

\* Mutant of MovingTargetRotation: the angle is always taken from the vector to
\* the movement target.
MovingTargetRotationWaypoint(dx, dy) == calculateIsoRotation(dx, dy, targetRotationY)

\* The target angle update() computes while the agent is farther than 0.1 from
\* its movement target (dx, dy: the vector to the target).
MovingTargetRotation(dx, dy) ==
  IF finalTargetPosition # Null
  THEN LET isDiagonal == Abs(dx) > ArrivalEps /\ Abs(dy) > ArrivalEps
           finalDx == finalTargetPosition[1] - currentX
           finalDy == finalTargetPosition[2] - currentY
       IN  IF ~isDiagonal
           THEN IF finalDx * finalDx + finalDy * finalDy > ArrivalEps * ArrivalEps
                THEN calculateIsoRotation(finalDx, finalDy, targetRotationY)
                ELSE targetRotationY
           ELSE calculateIsoRotation(dx, dy, targetRotationY)
  ELSE calculateIsoRotation(dx, dy, targetRotationY)

\* The angle update() hands to snapToMainDirection on arrival at (x, y).
ArrivalTargetRotation(x, y) ==
  IF finalTargetPosition # Null
  THEN LET dx == finalTargetPosition[1] - x
           dy == finalTargetPosition[2] - y
       IN  IF Abs(dx) > ArrivalEps \/ Abs(dy) > ArrivalEps
           THEN calculateIsoRotation(dx, dy, targetRotationY)
           ELSE targetRotationY
  ELSE targetRotationY

\* update: distance < 0.1, on the squared distance d2.
AtTarget(d2) == d2 < ArrivalEps * ArrivalEps

\* Mutant of HasNextWaypoint: the path ends at its first waypoint.
HasNextWaypointNever == FALSE

\* update: path.length > 0 && currentPathIndex < path.length - 1
HasNextWaypoint == Len(path) > 0 /\ currentPathIndex < Len(path) - 1

\* The waypoint the movement target is left on (not the program's).
NextWaypointStale == path[currentPathIndex + 1]

\* update: this.path[this.currentPathIndex] after currentPathIndex++.
NextWaypoint == path[currentPathIndex + 2]

\* Character3D.update(deltaTime)
update(dt) ==
  LET rotated == updateRotation(currentRotationY, targetRotationY, isMoving)
      dx == targetX - currentX
      dy == targetY - currentY
      d2 == dx * dx + dy * dy
      distance == Sqrt(d2)
      moveDistance == Min(MoveStep(dt), distance)
  IN  /\ lastOp' = "update"
      /\ ticks' = IF isMoving THEN Tick(ticks) ELSE ticks
      /\ runDt' = IF ~isMoving THEN runDt
                  ELSE IF runDt = 0 \/ runDt = dt THEN dt ELSE -1
      /\ UNCHANGED <<lastPath, pathStart, prevPath, wasMoving>>
      /\ IF ~isMoving
         THEN /\ currentRotationY' = rotated
              /\ updateResult' = "false"
              /\ UNCHANGED arrived
              /\ UNCHANGED <<currentX, currentY, targetX, targetY, isMoving, path,
                             currentPathIndex, finalTargetPosition, targetRotationY>>
         ELSE IF AtTarget(d2)
         THEN /\ currentX' = targetX
              /\ currentY' = targetY
              /\ IF HasNextWaypoint
                 THEN /\ currentPathIndex' = currentPathIndex + 1
                      /\ targetX' = NextWaypoint[1]
                      /\ targetY' = NextWaypoint[2]
                      /\ currentRotationY' = rotated
                      /\ updateResult' = "true"
                      /\ UNCHANGED <<isMoving, path, finalTargetPosition,
                                     targetRotationY, arrived>>
                 ELSE LET snapped ==
                            snapToMainDirection(ArrivalTargetRotation(targetX, targetY))
                      IN  /\ targetRotationY' = snapped
                          /\ currentRotationY' = snapped
                          /\ isMoving' = FALSE
                          /\ path' = <<>>
                          /\ currentPathIndex' = 0
                          /\ finalTargetPosition' = Null
                          /\ updateResult' = "false"
                          /\ arrived' = TRUE
                          /\ UNCHANGED <<targetX, targetY>>
         ELSE /\ targetRotationY' =
                   IF d2 > ArrivalEps * ArrivalEps THEN MovingTargetRotation(dx, dy)
                   ELSE targetRotationY
              /\ currentRotationY' = rotated
              /\ currentX' = currentX + RoundDiv(dx * moveDistance, distance)
              /\ currentY' = currentY + RoundDiv(dy * moveDistance, distance)
              /\ updateResult' = "true"
              /\ UNCHANGED <<targetX, targetY, isMoving, path, currentPathIndex,
                             finalTargetPosition, arrived>>

\* Mutant of rotateTowardsPosition: the pointer is followed while moving too.
rotateTowardsPositionAlways(x, y) ==
  LET dx == x - currentX
      dy == y - currentY
  IN  /\ lastOp' = "rotateTowardsPosition"
      /\ targetRotationY' =
           IF dx * dx + dy * dy > ArrivalEps * ArrivalEps
           THEN NormalizeAngle(-(Atan2(dy, dx) + Pi \div 4) + Pi)
           ELSE targetRotationY
      /\ arrived' = FALSE
      /\ UNCHANGED <<currentX, currentY, targetX, targetY, isMoving, path,
                     currentPathIndex, finalTargetPosition, currentRotationY,
                     updateResult, lastPath, pathStart, ticks, runDt, prevPath,
                     wasMoving>>

\* Character3D.rotateTowardsPosition(x, y)
rotateTowardsPosition(x, y) ==
  LET dx == x - currentX
      dy == y - currentY
  IN  /\ lastOp' = "rotateTowardsPosition"
      /\ targetRotationY' =
           IF ~isMoving /\ dx * dx + dy * dy > ArrivalEps * ArrivalEps
           THEN NormalizeAngle(-(Atan2(dy, dx) + Pi \div 4) + Pi)
           ELSE targetRotationY
      /\ arrived' = FALSE
      /\ UNCHANGED <<currentX, currentY, targetX, targetY, isMoving, path,
                     currentPathIndex, finalTargetPosition, currentRotationY,
                     updateResult, lastPath, pathStart, ticks, runDt, prevPath,
                     wasMoving>>

\* Character3D.getPosition()
getPosition == <<currentX, currentY>>

-----------------------------------------------------------------------------
(* The scenes: sizes                                                       *)

(* A scene of the program is 40 cells wide or more.  The model keeps the     *)
(* program's formulas and scales four of its constants down, so that a grid  *)
(* has 4 to 9 cells a side and every cell can be enumerated.                 *)

\* gridSize (20 in both scenes).
gridSize == 2
\* The margin added to the cells that fit the screen (the "+ 20").
GridMargin == 3
\* targetTilesVisible (12 in IsoScene).
targetTilesVisible == 1
\* A grid is rebuilt when its size changes by more than this (the "> 5").
GridChangeThreshold == 1

\* Obstacle density, in thousandths (0.075 and 0.12).
IsoDensity == 75
TopDownDensity == 120
\* avoidRadius of IsoScene.createRandomObstaclePositions.
avoidRadius == 1
\* distanceFromStart <= 2 of TopDownScene.createObstacles.
StartDistance == 2
\* maxAttempts = count * 10: the attempts per obstacle, scaled down.
AttemptsFactor == 2
\* maxSearchRadius of TopDownScene.handleClick.
maxSearchRadius == 3
\* The limits of calculatedTileSize, in pixels.
MinTileSize == 32
MaxTileSize == 128

\* The cells of a grid of n x n cells, as <<x, y>>.
Cells(n) == (0..(n - 1)) \X (0..(n - 1))
\* The elements of a sequence.
Range(q) == {q[i] : i \in 1..Len(q)}
\* Math.max(0, Math.min(n - 1, v))
Clamp(v, n) == Max(0, Min(n - 1, v))

\* IsoUtils.isoToScreen
isoToScreen(isoX, isoY, t) == <<(isoX - isoY) * t, ((isoX + isoY) * t) \div 2>>

\* IsoUtils.screenToIso: the two coordinates as exact fractions xn / d and yn / d.
screenToIso(screenX, screenY, t) ==
  [xn |-> screenX + 2 * screenY, yn |-> 2 * screenY - screenX, d |-> 2 * t]

\* Math.floor, Math.ceil and Math.round of the fraction n / d (d > 0).
Floor(n, d) == n \div d
Ceil(n, d) == -((-n) \div d)
Round(n, d) == (2 * n + d) \div (2 * d)

\* IsoScene: tileSize from the screen width, ((calculatedTileSize / 3) * 1.5) / 2.
IsoTileSize(width) ==
  LET calculatedTileSize ==
        Max(MinTileSize * PosScale,
            Min(MaxTileSize * PosScale, width \div targetTilesVisible))
  IN  calculatedTileSize \div 4

\* IsoScene: extendedGridSize.
IsoGridSize(width, height, t) ==
  Max(gridSize * 2,
      Max(CeilDiv(width, t) + GridMargin, CeilDiv(2 * height, t) + GridMargin))

\* TopDownScene.tileSize = 64 / 1.5
TopDownTileSize == RoundDiv(64 * PosScale * 2, 3)

\* TopDownScene: extendedGridSize.
TopDownGridSize(width, height, t) ==
  Max(gridSize,
      Max(CeilDiv(width, t) + GridMargin, CeilDiv(height, t) + GridMargin))

\* Math.round(extendedGridSize / 2) and Math.floor(extendedGridSize / 2)
IsoCenter(n) == (n + 1) \div 2
TopDownCenter(n) == n \div 2

\* Math.floor(totalTiles * density)
IsoObstacleCount(n) == (n * n * IsoDensity) \div 1000
TopDownObstacleCount(n) == (n * n * TopDownDensity) \div 1000

\* A mask that forgets the obstacles (not the program's).
BuildGridEmpty(n, cells) == [size |-> n, blocked |-> {}]

\* new PF.Grid(matrix): the size of the matrix and the cells marked 1.
BuildGrid(n, cells) == [size |-> n, blocked |-> cells \cap Cells(n)]

-----------------------------------------------------------------------------
(* Shapes                                                                  *)

\* IsoScene.isPointInDiamond: dx / halfWidth + dy / halfHeight <= 1
isPointInDiamond(px, py, centerX, centerY, halfWidth, halfHeight) ==
  LET dx == Abs(px - centerX)
      dy == Abs(py - centerY)
  IN  dx * halfHeight + dy * halfWidth <= halfWidth * halfHeight

\* Cube.isPointInside for the cube of cell c drawn with tile size t (halfWidth t,
\* halfHeight t / 2, cubeHeight 1.2 t).  The side test compares
\* dx / halfWidth + sideDy / halfHeight with 1 after multiplying by
\* halfWidth * span, where span is the (positive) height from socle top to base
\* bottom and halfWidth = 2 * halfHeight.
isPointInside(c, t, worldX, worldY) ==
  LET center == isoToScreen(c[1], c[2], t)
      centerX == center[1]
      centerY == center[2]
      halfWidth == t
      halfHeight == t \div 2
      cubeHeight == (t * 12) \div 10
      dx == Abs(worldX - centerX)
      topY == centerY - cubeHeight - halfHeight
      bottomY == centerY + halfHeight
      baseDy == Abs(worldY - centerY)
      socleCenterY == centerY - cubeHeight
      socleDy == Abs(worldY - socleCenterY)
      span == bottomY - topY
      \* sideDy * span, with t = (bottomY - worldY) / span
      sideDySpan == Abs((worldY - centerY) * span + cubeHeight * (bottomY - worldY))
  IN  IF dx > halfWidth THEN FALSE
      ELSE IF worldY < topY \/ worldY > bottomY THEN FALSE
      ELSE IF dx * halfHeight + baseDy * halfWidth <= halfWidth * halfHeight THEN TRUE
      ELSE IF dx * halfHeight + socleDy * halfWidth <= halfWidth * halfHeight THEN TRUE
      ELSE dx * span + 2 * sideDySpan <= halfWidth * span

-----------------------------------------------------------------------------
(* Path planning (the pathfinding library, PF.AStarFinder and PF.Grid)      *)

\* PF.Grid.isWalkableAt: inside the matrix and not marked 1.
isWalkableAt(g, c) == c \in Cells(g.size) /\ c \notin g.blocked

\* The four orthogonal steps, and the four diagonal steps.
OrthogonalSteps == {<<1, 0>>, <<-1, 0>>, <<0, 1>>, <<0, -1>>}
DiagonalSteps == {<<1, 1>>, <<1, -1>>, <<-1, 1>>, <<-1, -1>>}

\* Mutant of CanStep: a diagonal step is taken whatever flanks it (corners are cut).
CanStepAcrossCorners(g, a, b, diagonal) ==
  /\ isWalkableAt(g, b)
  /\ \/ <<b[1] - a[1], b[2] - a[2]>> \in OrthogonalSteps
     \/ diagonal /\ <<b[1] - a[1], b[2] - a[2]>> \in DiagonalSteps

\* The finder a scene constructs takes diagonal steps: IsoScene builds
\* new PF.AStarFinder({allowDiagonal: true, dontCrossCorners: true}), TopDownScene
\* new PF.AStarFinder(), whose default is orthogonal steps only.
allowDiagonal(sceneName) == sceneName = "IsoScene"

\* PF.Grid.getNeighbors: b is a neighbour of a.  Without diagonal movement
\* (new PF.AStarFinder()) the walkable orthogonal cells; with allowDiagonal and
\* dontCrossCorners also a walkable diagonal cell whose two flanking orthogonal
\* cells are both walkable.
CanStep(g, a, b, diagonal) ==
  /\ isWalkableAt(g, b)
  /\ \/ <<b[1] - a[1], b[2] - a[2]>> \in OrthogonalSteps
     \/ /\ diagonal
        /\ <<b[1] - a[1], b[2] - a[2]>> \in DiagonalSteps
        /\ isWalkableAt(g, <<a[1], b[2]>>)
        /\ isWalkableAt(g, <<b[1], a[2]>>)

\* Cost of a step, in 1/10000 of a cell side: 1 or sqrt(2).
StepCost(a, b) == IF a[1] # b[1] /\ a[2] # b[2] THEN 14142 ELSE 10000
Unreached == 1000000000

\* The cells a step can come from.
Around(g, c) ==
  {<<c[1] + s[1], c[2] + s[2]>> : s \in OrthogonalSteps \cup DiagonalSteps}
    \cap Cells(g.size)

\* Cost of the cheapest path from the start cell to every cell: relaxation of
\* the step costs until nothing changes.
RECURSIVE Relax(_, _, _)
Relax(g, diagonal, D) ==
  LET Via(c) == {D[a] + StepCost(a, c) :
                   a \in {b \in Around(g, c) : D[b] < Unreached /\ CanStep(g, b, c, diagonal)}}
      Least(S) == CHOOSE v \in S : \A w \in S : v <= w
      D2 == [c \in Cells(g.size) |->
               IF Via(c) = {} THEN D[c] ELSE Min(D[c], Least(Via(c)))]
  IN  IF D2 = D THEN D ELSE Relax(g, diagonal, D2)

PathCosts(g, diagonal, start) ==
  Relax(g, diagonal, [c \in Cells(g.size) |-> IF c = start THEN 0 ELSE Unreached])

\* The cheapest paths from the start cell to cell c, each with both ends.
RECURSIVE CheapestTo(_, _, _, _, _)
CheapestTo(g, diagonal, D, start, c) ==
  IF c = start THEN {<<start>>}
  ELSE UNION {{Append(p, c) : p \in CheapestTo(g, diagonal, D, start, a)} :
                a \in {b \in Around(g, c) :
                         /\ D[b] < Unreached
                         /\ CanStep(g, b, c, diagonal)
                         /\ D[b] + StepCost(b, c) = D[c]}}

\* AStarFinder.findPath(startX, startY, endX, endY, grid): A* with an admissible
\* heuristic returns a cheapest path, the start cell first and the goal last,
\* and [] when the goal cannot be reached.  Which of several cheapest paths it
\* returns depends on the order of its open list: the model allows each of them.
\* The start cell is not tested for walkability.
findPath(start, goal, g, diagonal) ==
  LET D == PathCosts(g, diagonal, start)
  IN  IF D[goal] = Unreached THEN {<<>>}
      ELSE CheapestTo(g, diagonal, D, start, goal)

\* path.length > 1 ? path.slice(1) : path
pathToFollow(p) == IF Len(p) > 1 THEN Tail(p) ELSE p

-----------------------------------------------------------------------------
(* Click resolution                                                        *)

\* The four adjacent positions, in the order East, West, South, North.
adjacentPositions(c) ==
  <<<<c[1] + 1, c[2]>>, <<c[1] - 1, c[2]>>, <<c[1], c[2] + 1>>, <<c[1], c[2] - 1>>>>

\* Mutant of validAdjacentTiles: obstacle cells are kept.
validAdjacentTilesAny(c, n, blocked) ==
  SelectSeq(adjacentPositions(c), LAMBDA q : q \in Cells(n))

\* adjacentPositions.filter(...): inside the grid of n x n cells and not in blocked.
validAdjacentTiles(c, n, blocked) ==
  SelectSeq(adjacentPositions(c), LAMBDA q : q \in Cells(n) /\ q \notin blocked)

\* The first candidate listed, whatever its distance (not the program's).
closestTileFirst(candidates, start) == candidates[1]

\* The loop over validAdjacentTiles: the first tile of the least distance to the
\* start cell (distance < minDistance; the squares are compared).
RECURSIVE ClosestLoop(_, _, _, _)
ClosestLoop(candidates, start, i, best) ==
  IF i > Len(candidates) THEN best
  ELSE LET d2(q) == (q[1] - start[1]) * (q[1] - start[1])
                    + (q[2] - start[2]) * (q[2] - start[2])
       IN  IF d2(candidates[i]) < d2(best)
           THEN ClosestLoop(candidates, start, i + 1, candidates[i])
           ELSE ClosestLoop(candidates, start, i + 1, best)
closestTile(candidates, start) == ClosestLoop(candidates, start, 2, candidates[1])


-----------------------------------------------------------------------------
(* IsoScene                                                                *)

\* this.tiles.get(key): createGrid made a tile for every cell of the grid it drew.
HasTile(c) == c \in Cells(tiles.size)

\* A fallback that clamps one cell beyond the grid (not the program's).
findTileAtScreenPositionLoose(worldX, worldY) ==
  LET isoGrid == screenToIso(worldX, worldY, tileSize)
      fx == Floor(isoGrid.xn, isoGrid.d)
      cx == Ceil(isoGrid.xn, isoGrid.d)
      fy == Floor(isoGrid.yn, isoGrid.d)
      cy == Ceil(isoGrid.yn, isoGrid.d)
      candidates == <<<<fx, fy>>, <<cx, fy>>, <<fx, cy>>, <<cx, cy>>>>
      halfWidth == tileSize
      halfHeight == tileSize \div 2
      Contains(c) ==
        /\ c \in Cells(extendedGridSize)
        /\ LET screenPos == isoToScreen(c[1], c[2], tileSize)
           IN  isPointInDiamond(worldX, worldY, screenPos[1], screenPos[2],
                                halfWidth, halfHeight)
      found == SelectSeq(candidates, Contains)
  IN  IF found # <<>> THEN found[1]
      ELSE <<Clamp(Round(isoGrid.xn, isoGrid.d), extendedGridSize + 1),
             Clamp(Round(isoGrid.yn, isoGrid.d), extendedGridSize + 1)>>

\* IsoScene.findTileAtScreenPosition
findTileAtScreenPosition(worldX, worldY) ==
  LET isoGrid == screenToIso(worldX, worldY, tileSize)
      fx == Floor(isoGrid.xn, isoGrid.d)
      cx == Ceil(isoGrid.xn, isoGrid.d)
      fy == Floor(isoGrid.yn, isoGrid.d)
      cy == Ceil(isoGrid.yn, isoGrid.d)
      candidates == <<<<fx, fy>>, <<cx, fy>>, <<fx, cy>>, <<cx, cy>>>>
      halfWidth == tileSize
      halfHeight == tileSize \div 2
      Contains(c) ==
        /\ c \in Cells(extendedGridSize)
        /\ LET screenPos == isoToScreen(c[1], c[2], tileSize)
           IN  isPointInDiamond(worldX, worldY, screenPos[1], screenPos[2],
                                halfWidth, halfHeight)
      found == SelectSeq(candidates, Contains)
  IN  IF found # <<>> THEN found[1]
      ELSE <<Clamp(Round(isoGrid.xn, isoGrid.d), extendedGridSize),
             Clamp(Round(isoGrid.yn, isoGrid.d), extendedGridSize)>>

\* The cell of the character: Math.floor of screenToIso(getPosition()), clamped.
IsoStartCell ==
  LET currentPos == getPosition
      currentIso == screenToIso(currentPos[1], currentPos[2], tileSize)
  IN  <<Clamp(Floor(currentIso.xn, currentIso.d), extendedGridSize),
        Clamp(Floor(currentIso.yn, currentIso.d), extendedGridSize)>>

\* IsoScene.highlightTargetTile: the selected tile, its key and the adjacent
\* tiles afterwards.  A tile is <<cell, generation of the grid drawing>>.
highlightTargetTile(c) ==
  LET adjacent == SelectSeq(adjacentPositions(c),
                            LAMBDA q : /\ q \in Cells(extendedGridSize)
                                       /\ q \notin Range(obstacles)
                                       /\ HasTile(q))
  IN  [tile |-> IF HasTile(c) THEN <<c, tiles.gen>> ELSE selectedTile,
       key |-> IF HasTile(c) THEN c ELSE selectedTileKey,
       adjacent |-> [i \in 1..Len(adjacent) |-> <<adjacent[i], tiles.gen>>]]

\* Mutant of noPath: an empty path is followed like any other.
noPathNever(p) == FALSE

\* path.length === 0: the click ends here.
noPath(p) == Len(p) = 0

\* What handleClick decides before it queries the planner.
IsoClickPlan(worldX, worldY) ==
  LET hits == SelectSeq(obstacleCubes,
                        LAMBDA c : isPointInside(c, tileSize, worldX, worldY))
      clamped == IF hits # <<>> THEN hits[1]
                 ELSE findTileAtScreenPosition(worldX, worldY)
      start == IsoStartCell
      isCubeClicked == clamped \in Range(obstacles)
      valid == validAdjacentTiles(clamped, extendedGridSize, Range(obstacles))
  IN  [target |-> clamped,
       isCube |-> isCubeClicked,
       start |-> start,
       noplace |-> isCubeClicked /\ valid = <<>>,
       goal |-> IF valid = <<>> THEN clamped ELSE closestTile(valid, start),
       \* moveTo(...) target of the branches that find their screen path empty
       direct |-> IF isCubeClicked /\ valid # <<>> THEN closestTile(valid, start)
                  ELSE clamped,
       final |-> clamped]

\* IsoScene.handleClick(screenX, screenY)
IsoScene_handleClick(screenX, screenY) ==
  LET worldX == screenX - sceneX
      worldY == screenY - sceneY
      plan == IsoClickPlan(worldX, worldY)
      newGrid == BuildGrid(extendedGridSize, Range(obstacles))
      lit == highlightTargetTile(plan.target)
      Seen(queried, found, waypoints, call) ==
        [target |-> plan.target, isCube |-> plan.isCube, start |-> plan.start,
         goal |-> IF queried THEN plan.goal ELSE Null, queried |-> queried,
         found |-> found, waypoints |-> waypoints,
         final |-> IF call = "moveAlongPath" THEN plan.final ELSE Null,
         call |-> call, before |-> charFields,
         selBefore |-> <<selectedCube, selectedTile, selectedTileKey, adjacentTiles>>]
  IN  /\ grid' = newGrid
      /\ selectedCube' =
           IF plan.isCube /\ plan.target \in Range(obstacleCubes)
           THEN <<plan.target, cubesGen>> ELSE Null
      /\ IF plan.noplace
         THEN /\ UNCHANGED <<selectedTile, selectedTileKey, adjacentTiles, charVars>>
              /\ lastClick' = Seen(FALSE, <<>>, <<>>, "none")
         ELSE /\ selectedTile' = lit.tile
              /\ selectedTileKey' = lit.key
              /\ adjacentTiles' = lit.adjacent
              /\ \E p \in findPath(plan.start, plan.goal, newGrid, allowDiagonal("IsoScene")) :
                   IF noPath(p)
                   THEN /\ UNCHANGED charVars
                        /\ lastClick' = Seen(TRUE, p, <<>>, "none")
                   ELSE LET follow == pathToFollow(p)
                            screenPath ==
                              [i \in 1..Len(follow) |->
                                 isoToScreen(follow[i][1], follow[i][2], tileSize)]
                        IN  IF Len(screenPath) = 0
                            THEN /\ LET q == isoToScreen(plan.direct[1], plan.direct[2],
                                                         tileSize)
                                    IN  moveTo(q[1], q[2])
                                 /\ lastClick' = Seen(TRUE, p, <<>>, "moveTo")
                            ELSE /\ moveAlongPath(
                                      [fmt |-> "points", pts |-> screenPath], Undefined,
                                      isoToScreen(plan.final[1], plan.final[2], tileSize))
                                 /\ lastClick' = Seen(TRUE, p, follow, "moveAlongPath")

\* A camera one tick late: centred on the position before the call (not the
\* program's).
updateScenePositionLate(pos) ==
  /\ sceneX' = screenWidth' \div 2 - currentX
  /\ sceneY' = screenHeight' \div 2 - currentY

\* updateScenePosition of both scenes, for the character at position pos.
updateScenePosition(pos) ==
  /\ sceneX' = screenWidth' \div 2 - pos[1]
  /\ sceneY' = screenHeight' \div 2 - pos[2]

\* The while condition of createRandomObstaclePositions.
IsoGenerating ==
  /\ placed < IsoObstacleCount(extendedGridSize)
  /\ attempts < IsoObstacleCount(extendedGridSize) * AttemptsFactor

\* One iteration of the loop of IsoScene.createRandomObstaclePositions, for the
\* cell drawn with Math.random().
createRandomObstaclePositions(cell) ==
  LET centerIso == IsoCenter(extendedGridSize)
      distanceX == Abs(cell[1] - centerIso)
      distanceY == Abs(cell[2] - centerIso)
  IN  /\ attempts' = attempts + 1
      /\ IF cell \in Range(obstacles)
         THEN UNCHANGED <<obstacles, placed>>
         ELSE IF distanceX <= avoidRadius /\ distanceY <= avoidRadius
         THEN UNCHANGED <<obstacles, placed>>
         ELSE /\ obstacles' = Append(obstacles, cell)
              /\ placed' = placed + 1

\* The characters of a decimal digit.
DigitChars == <<"0", "1", "2", "3", "4", "5", "6", "7", "8", "9">>

\* `${n}` of a natural number: its decimal digits.
RECURSIVE Decimal(_)
Decimal(n) ==
  IF n < 10 THEN <<DigitChars[n + 1]>>
  ELSE Decimal(n \div 10) \o <<DigitChars[(n % 10) + 1]>>

\* const tileKey = `${isoX},${isoY}`: the key of a cell in obstacles.
tileKey(isoX, isoY) == Decimal(isoX) \o <<",">> \o Decimal(isoY)

\* The position of the first comma of a key at or after position from, or
\* one past the end.
RECURSIVE CommaFrom(_, _)
CommaFrom(key, from) ==
  IF from > Len(key) THEN Len(key) + 1
  ELSE IF key[from] = "," THEN from
  ELSE CommaFrom(key, from + 1)

\* obstacleKey.split(','): the first two parts.
KeyParts(key) ==
  LET c1 == CommaFrom(key, 1)
      c2 == CommaFrom(key, c1 + 1)
  IN  <<SubSeq(key, 1, c1 - 1), SubSeq(key, c1 + 1, c2 - 1)>>

\* Number(part) of a run of digits.
RECURSIVE NumberOf(_)
NumberOf(part) ==
  IF part = <<>> THEN 0
  ELSE LET last == part[Len(part)]
           d == CHOOSE k \in 0..9 : DigitChars[k + 1] = last
       IN  10 * NumberOf(SubSeq(part, 1, Len(part) - 1)) + d

\* A cube built with the coordinates the wrong way round (not the program's).
createObstacleCubesSwapped ==
  [i \in 1..Len(obstacles) |-> <<obstacles[i][2], obstacles[i][1]>>]

\* IsoScene.createObstacleCubes: the old cubes are destroyed and the map is
\* cleared; one Cube(isoX, isoY) per key of obstacles, in the order of the set.
createObstacleCubes ==
  [i \in 1..Len(obstacles) |->
     LET parts == KeyParts(tileKey(obstacles[i][1], obstacles[i][2]))
     IN  <<NumberOf(parts[1]), NumberOf(parts[2])>>]

\* The rest of the IsoScene constructor, after createRandomObstaclePositions:
\* the mask, createGrid, createObstacleCubes, createCharacter, updateScenePosition.
IsoScene_constructor ==
  LET centerIso == IsoCenter(extendedGridSize)
      screenPos == isoToScreen(centerIso, centerIso, tileSize)
  IN  /\ grid' = BuildGrid(extendedGridSize, Range(obstacles))
      /\ tiles' = [size |-> extendedGridSize, gen |-> tiles.gen + 1]
      /\ obstacleCubes' = createObstacleCubes
      /\ cubesGen' = cubesGen + 1
      /\ setPosition(screenPos[1], screenPos[2])
      /\ spawn' = screenPos
      /\ generated' = <<centerIso, centerIso>>
      /\ UNCHANGED <<screenWidth, screenHeight>>
      /\ updateScenePosition(screenPos)

\* IsoScene.handleMouseMove(screenX, screenY)
IsoScene_handleMouseMove(screenX, screenY) ==
  rotateTowardsPosition(screenX - sceneX, screenY - sceneY)

\* IsoScene.update(deltaTime)
IsoScene_update(dt) ==
  /\ update(dt)
  /\ UNCHANGED <<screenWidth, screenHeight>>
  /\ updateScenePosition(<<currentX', currentY'>>)

\* A resize that regenerates for a change of the tile size alone (not the
\* program's).
IsoResizeBranchTileOnly(width, height) ==
  IF 10 * Abs(IsoTileSize(width) - tileSize) > tileSize THEN "tile" ELSE "none"

\* IsoScene.updateScreenSize(width, height) up to its call of
\* createRandomObstaclePositions, or to its end when it does not regenerate.
\* branch: "tile" (the tile size changes by more than 10%), "grid" (the grid
\* size changes by more than the threshold) or "none".
IsoResizeBranch(width, height) ==
  LET newTileSize == IsoTileSize(width)
      newExtendedGridSize == IsoGridSize(width, height, tileSize)
  IN  IF 10 * Abs(newTileSize - tileSize) > tileSize THEN "tile"
      ELSE IF Abs(newExtendedGridSize - extendedGridSize) > GridChangeThreshold
      THEN "grid"
      ELSE "none"

IsoScene_updateScreenSize(width, height) ==
  LET branch == IsoResizeBranch(width, height)
      newTileSize == IsoTileSize(width)
  IN  /\ screenWidth' = width
      /\ screenHeight' = height
      /\ IF branch = "tile"
         THEN /\ tileSize' = newTileSize
              /\ tiles' = [size |-> 0, gen |-> tiles.gen]
              /\ extendedGridSize' = IsoGridSize(width, height, newTileSize)
              /\ grid' = BuildGrid(extendedGridSize', {})
              /\ obstacles' = <<>>
              /\ pc' = "updateScreenSize:tile"
              /\ UNCHANGED <<sceneX, sceneY>>
         ELSE IF branch = "grid"
         THEN /\ extendedGridSize' = IsoGridSize(width, height, tileSize)
              /\ obstacles' = <<>>
              /\ pc' = "updateScreenSize:grid"
              /\ UNCHANGED <<tileSize, tiles, grid, sceneX, sceneY>>
         ELSE /\ updateScenePosition(getPosition)
              /\ UNCHANGED <<tileSize, tiles, extendedGridSize, grid, obstacles, pc>>

\* The rest of IsoScene.updateScreenSize, after createRandomObstaclePositions:
\* the mask, createGrid (when the tile size changed), createObstacleCubes,
\* updateScenePosition.
IsoScene_updateScreenSizeEnd ==
  /\ grid' = BuildGrid(extendedGridSize, Range(obstacles))
  /\ tiles' = IF pc = "updateScreenSize:tile"
              THEN [size |-> extendedGridSize, gen |-> tiles.gen + 1]
              ELSE tiles
  /\ obstacleCubes' = createObstacleCubes
  /\ cubesGen' = cubesGen + 1
  /\ generated' = <<IsoCenter(extendedGridSize), IsoCenter(extendedGridSize)>>
  /\ UNCHANGED <<screenWidth, screenHeight>>
  /\ updateScenePosition(getPosition)

-----------------------------------------------------------------------------
(* TopDownScene                                                            *)

\* The cell of a world point: Math.floor(v / tileSize), clamped.
TopDownCell(x, y) ==
  <<Clamp(x \div tileSize, extendedGridSize), Clamp(y \div tileSize, extendedGridSize)>>

\* The while condition of createObstacles (the attempts are not counted).
TopDownGenerating ==
  /\ placed < TopDownObstacleCount(extendedGridSize)
  /\ placed < TopDownObstacleCount(extendedGridSize) * AttemptsFactor

\* One iteration of the loop of TopDownScene.createObstacles.
createObstacles(cell) ==
  LET characterStart == TopDownCenter(extendedGridSize)
      distanceFromStart == Abs(cell[1] - characterStart) + Abs(cell[2] - characterStart)
  IN  IF distanceFromStart <= StartDistance
      THEN UNCHANGED <<obstaclePositions, placed>>
      ELSE IF cell \in obstaclePositions
      THEN UNCHANGED <<obstaclePositions, placed>>
      ELSE /\ obstaclePositions' =
                IF cell \in Cells(extendedGridSize)
                THEN obstaclePositions \cup {cell} ELSE obstaclePositions
           /\ placed' = placed + 1

\* The rest of the TopDownScene constructor: the mask of createObstacles,
\* createCharacter, updateScenePosition.
TopDownScene_constructor ==
  LET center == (extendedGridSize * tileSize) \div 2
  IN  /\ grid' = BuildGrid(extendedGridSize, obstaclePositions)
      /\ setPosition(center, center)
      /\ spawn' = <<center, center>>
      /\ generated' = <<TopDownCenter(extendedGridSize), TopDownCenter(extendedGridSize)>>
      /\ UNCHANGED <<screenWidth, screenHeight>>
      /\ updateScenePosition(<<center, center>>)

\* The offsets of one radius of the search of handleClick, in the order of its
\* loops: dx from -radius to radius, and for each dx, dy from -radius to radius.
ScanOffsets(radius) ==
  [i \in 1..((2 * radius + 1) * (2 * radius + 1)) |->
     <<((i - 1) \div (2 * radius + 1)) - radius, ((i - 1) % (2 * radius + 1)) - radius>>]

\* The search of handleClick around an obstacle cell c, from the given radius on:
\* the first cell inside the grid that is not an obstacle, or Null (found = false).
RECURSIVE nearestWalkable(_, _)
nearestWalkable(c, radius) ==
  IF radius > maxSearchRadius THEN Null
  ELSE LET offsets == ScanOffsets(radius)
           checked == [i \in 1..Len(offsets) |->
                         <<c[1] + offsets[i][1], c[2] + offsets[i][2]>>]
           free == SelectSeq(checked,
                             LAMBDA q : /\ q \in Cells(extendedGridSize)
                                        /\ q \notin obstaclePositions)
       IN  IF free # <<>> THEN free[1] ELSE nearestWalkable(c, radius + 1)

\* TopDownScene.handleClick(screenX, screenY)
TopDownScene_handleClick(screenX, screenY) ==
  LET worldX == screenX - sceneX
      worldY == screenY - sceneY
      clicked == TopDownCell(worldX, worldY)
      currentPos == getPosition
      start == TopDownCell(currentPos[1], currentPos[2])
      isObstacle == clicked \in obstaclePositions
      nearest == IF isObstacle THEN nearestWalkable(clicked, 1) ELSE clicked
      newGrid == BuildGrid(extendedGridSize, obstaclePositions)
      Seen(queried, found, waypoints, call) ==
        [target |-> clicked, isCube |-> isObstacle, start |-> start,
         goal |-> IF queried THEN nearest ELSE Null, queried |-> queried,
         found |-> found, waypoints |-> waypoints, final |-> Null,
         call |-> call, before |-> charFields,
         selBefore |-> <<selectedCube, selectedTile, selectedTileKey, adjacentTiles>>]
  IN  IF nearest = Null
      THEN /\ UNCHANGED <<grid, charVars>>
           /\ lastClick' = Seen(FALSE, <<>>, <<>>, "none")
      ELSE /\ grid' = newGrid
           /\ \E p \in findPath(start, nearest, newGrid, allowDiagonal("TopDownScene")) :
                IF noPath(p)
                THEN /\ UNCHANGED charVars
                     /\ lastClick' = Seen(TRUE, p, <<>>, "none")
                ELSE LET pathTuples == pathToFollow(p)
                     IN  /\ moveAlongPath([fmt |-> "tuples", pts |-> pathTuples],
                                          NumberArg(tileSize), Null)
                         /\ lastClick' = Seen(TRUE, p, pathTuples, "moveAlongPath")

\* TopDownScene.update(deltaTime)
TopDownScene_update(dt) ==
  /\ update(dt)
  /\ UNCHANGED <<screenWidth, screenHeight>>
  /\ updateScenePosition(<<currentX', currentY'>>)

\* TopDownScene.updateScreenSize(width, height)
TopDownScene_updateScreenSize(width, height) ==
  LET newExtendedGridSize == TopDownGridSize(width, height, tileSize)
  IN  /\ screenWidth' = width
      /\ screenHeight' = height
      /\ IF Abs(newExtendedGridSize - extendedGridSize) > GridChangeThreshold
         THEN /\ extendedGridSize' = newExtendedGridSize
              /\ grid' = BuildGrid(newExtendedGridSize, obstaclePositions)
         ELSE UNCHANGED <<extendedGridSize, grid>>
      /\ updateScenePosition(getPosition)

-----------------------------------------------------------------------------
(* IsoUtils in floating point. A number is <<m, e>> for m * 2^e, with m = 0  *)
(* or 2^(Precision-1) <= |m| < 2^Precision; every operation of the program    *)
(* rounds its exact result to the nearest such number, ties to even, as the  *)
(* IEEE-754 operations of JavaScript do with 53 bits.                        *)

\* The bits of a significand (53 in the program).
Precision == 5

\* The number of bits of a positive integer.
RECURSIVE BitLength(_)
BitLength(n) == IF n = 0 THEN 0 ELSE 1 + BitLength(n \div 2)

\* n * 2^e rounded to the nearest number of the format, ties to even.
Fl(n, e) ==
  IF n = 0 THEN <<0, 0>>
  ELSE LET a == Abs(n)
           k == BitLength(a) - Precision
       IN  IF k <= 0 THEN <<Sign(n) * a * 2^(0 - k), e + k>>
           ELSE LET q == a \div 2^k
                    r == a % 2^k
                    half == 2^(k - 1)
                    up == r > half \/ (r = half /\ q % 2 = 1)
                    m == IF up THEN q + 1 ELSE q
                IN  IF m = 2^Precision
                    THEN <<Sign(n) * 2^(Precision - 1), e + k + 1>>
                    ELSE <<Sign(n) * m, e + k>>

\* An integer of the program as a number of the format.
FlInt(n) == Fl(n, 0)

\* a * b
FlMul(a, b) == Fl(a[1] * b[1], a[2] + b[2])

\* a / b, for b # 0: the quotient with Precision + 3 bits and a sticky bit.
FlDiv(a, b) ==
  IF a[1] = 0 THEN <<0, 0>>
  ELSE LET num == Abs(a[1]) * 2^(Precision + 2)
           den == Abs(b[1])
           q == num \div den
           sticky == IF num % den = 0 THEN 0 ELSE 1
       IN  Fl(Sign(a[1]) * Sign(b[1]) * (2 * q + sticky),
              a[2] - b[2] - (Precision + 2) - 1)

\* a + b and a - b
FlAdd(a, b) ==
  IF a[1] = 0 THEN b
  ELSE IF b[1] = 0 THEN a
  ELSE LET e == Min(a[2], b[2])
       IN  Fl(a[1] * 2^(a[2] - e) + b[1] * 2^(b[2] - e), e)

FlSub(a, b) == FlAdd(a, <<0 - b[1], b[2]>>)

\* IsoUtils.isoToScreen(isoX, isoY, tileSize)
IsoUtils_isoToScreen(isoX, isoY, t) ==
  [x |-> FlMul(FlInt(isoX - isoY), t),
   y |-> FlDiv(FlMul(FlInt(isoX + isoY), t), FlInt(2))]

\* The inverse of the top-down scaling (not the one of IsoUtils).
IsoUtils_screenToIsoScaling(screenX, screenY, t) ==
  [x |-> FlDiv(screenX, t), y |-> FlDiv(screenY, t)]

\* IsoUtils.screenToIso(screenX, screenY, tileSize)
IsoUtils_screenToIso(screenX, screenY, t) ==
  LET half == FlDiv(t, FlInt(2))
  IN  [x |-> FlDiv(FlAdd(FlDiv(screenX, t), FlDiv(screenY, half)), FlInt(2)),
       y |-> FlDiv(FlSub(FlDiv(screenY, half), FlDiv(screenX, t)), FlInt(2))]

\* No conversion under way.
NoConv ==
  [stage |-> "none", cell |-> <<0, 0>>, tileSize |-> <<0, 0>>,
   screen |-> [x |-> <<0, 0>>, y |-> <<0, 0>>],
   iso |-> [x |-> <<0, 0>>, y |-> <<0, 0>>]]

-----------------------------------------------------------------------------
(* The scenes: construction, the handlers, the frames                      *)

\* Screen sizes in pixels: the first is the size at construction.
IsoScreenSizes == <<<<32, 16>>, <<64, 16>>, <<32, 24>>>>
TopDownScreenSizes == <<<<128, 128>>, <<42, 42>>, <<170, 128>>>>

\* Frame times of the scenes, in 1/DtScale s.
SceneDeltaTimes == {100}

\* The cells Math.random() draws while IsoScene is constructed, besides the
\* centre: the corner next to the centre, its two neighbours, and a cell with
\* four neighbours.
IsoCornerCells == {<<6, 6>>, <<5, 6>>, <<6, 5>>, <<2, 4>>}

\* The cells drawn for TopDownScene.
TopDownDrawCells == {<<5, 5>>, <<5, 4>>, <<4, 5>>, <<4, 1>>, <<3, 0>>}

\* maxAttempts of the generator of the scene: the target count times the
\* attempts per obstacle.
obstacleCount ==
  IF scene = "IsoScene" THEN IsoObstacleCount(extendedGridSize)
  ELSE TopDownObstacleCount(extendedGridSize)

maxAttempts == obstacleCount * AttemptsFactor

\* The cells whose centre is clicked.
IsoClickCells == {<<6, 6>>, <<5, 6>>, <<2, 4>>, <<4, 3>>}
TopDownClickCells == {<<5, 5>>, <<5, 4>>, <<4, 1>>, <<3, 3>>}

\* The cells the generator of IsoScene draws: at construction the corner cells
\* and the centre; at a regeneration the centre and the cell of the character.
IsoDraws ==
  LET centerIso == IsoCenter(extendedGridSize)
  IN  ((IF pc = "constructor" THEN IsoCornerCells ELSE {IsoStartCell})
         \cup {<<centerIso, centerIso>>}) \cap Cells(extendedGridSize)

TopDownDraws ==
  LET characterStart == TopDownCenter(extendedGridSize)
  IN  (TopDownDrawCells \cup {<<characterStart, characterStart>>})
        \cap Cells(extendedGridSize)

NoClick ==
  [target |-> Null, isCube |-> FALSE, start |-> Null, goal |-> Null,
   queried |-> FALSE, found |-> <<>>, waypoints |-> <<>>, final |-> Null,
   call |-> "init", before |-> Null, selBefore |-> Null]

\* The fields of a scene when its constructor reaches the obstacle generator.
SceneStart(name, width, height, t, n) ==
  /\ scene = name
  /\ pc = IF name = "none" THEN "ready" ELSE "constructor"
  /\ screenWidth = width /\ screenHeight = height
  /\ sceneX = 0 /\ sceneY = 0
  /\ tileSize = t
  /\ extendedGridSize = n
  /\ grid = BuildGrid(n, {})
  /\ tiles = [size |-> 0, gen |-> 0]
  /\ obstacles = <<>>
  /\ obstaclePositions = {}
  /\ obstacleCubes = <<>>
  /\ cubesGen = 0
  /\ selectedCube = Null
  /\ selectedTile = Null
  /\ selectedTileKey = Null
  /\ adjacentTiles = <<>>
  /\ placed = 0 /\ attempts = 0 /\ draws = 0
  /\ spawn = Null
  /\ generated = Null
  /\ lastClick = NoClick
  /\ ticksSinceClick = 0
  /\ sceneOp = "none"

\* The character without a scene.
NoScene == SceneStart("none", 0, 0, 1, 0)

IsoStart ==
  LET width == IsoScreenSizes[1][1] * PosScale
      height == IsoScreenSizes[1][2] * PosScale
      t == IsoTileSize(width)
  IN  SceneStart("IsoScene", width, height, t, IsoGridSize(width, height, t))

TopDownStart ==
  LET width == TopDownScreenSizes[1][1] * PosScale
      height == TopDownScreenSizes[1][2] * PosScale
  IN  SceneStart("TopDownScene", width, height, TopDownTileSize,
                 TopDownGridSize(width, height, TopDownTileSize))

SceneInit ==
  /\ CharInit
  /\ cmds = 0
  /\ conv = NoConv
  /\ \/ IsoStart
     \/ TopDownStart

IsoGenerate ==
  /\ scene = "IsoScene" /\ pc # "ready"
  /\ IsoGenerating
  /\ \E cell \in IsoDraws : createRandomObstaclePositions(cell)
  /\ draws' = Min(draws + 1, maxAttempts + 1)
  /\ UNCHANGED <<conv, scene, pc, screenVars, gridVars, obstaclePositions, obstacleCubes,
                 cubesGen, selectionVars, sceneHistory, sceneOp, charVars, cmds>>

IsoConstructed ==
  /\ scene = "IsoScene" /\ pc = "constructor"
  /\ ~IsoGenerating
  /\ IsoScene_constructor
  /\ pc' = "ready"
  /\ sceneOp' = "constructor"
  /\ placed' = 0 /\ attempts' = 0 /\ draws' = 0
  /\ UNCHANGED <<conv, scene, tileSize, extendedGridSize, obstacles, obstaclePositions,
                 selectionVars, lastClick, ticksSinceClick, cmds>>

IsoHandleClick ==
  /\ scene = "IsoScene" /\ pc = "ready"
  /\ cmds < MaxCmds
  /\ cmds' = cmds + 1
  /\ \E c \in IsoClickCells :
       LET world == isoToScreen(c[1], c[2], tileSize)
       IN  IsoScene_handleClick(world[1] + sceneX, world[2] + sceneY)
  /\ ticksSinceClick' = 0
  /\ sceneOp' = "handleClick"
  /\ UNCHANGED <<conv, scene, pc, screenVars, tileSize, extendedGridSize, tiles,
                 obstacleVars, generatorVars, spawn, generated>>

\* The pointer moves to the centre of the first cell.
IsoHandleMouseMove ==
  /\ scene = "IsoScene" /\ pc = "ready"
  /\ cmds < MaxCmds
  /\ cmds' = cmds + 1
  /\ IsoScene_handleMouseMove(sceneX, sceneY)
  /\ sceneOp' = "handleMouseMove"
  /\ UNCHANGED <<conv, scene, pc, screenVars, gridVars, obstacleVars, selectionVars,
                 generatorVars, sceneHistory>>

IsoUpdate ==
  /\ scene = "IsoScene" /\ pc = "ready"
  /\ \E dt \in SceneDeltaTimes : IsoScene_update(dt)
  /\ ticksSinceClick' = Min(ticksSinceClick + 1, 2)
  /\ sceneOp' = "update"
  /\ UNCHANGED <<conv, scene, pc, gridVars, obstacleVars, selectionVars, generatorVars,
                 spawn, generated, lastClick, cmds>>

IsoUpdateScreenSize ==
  /\ scene = "IsoScene" /\ pc = "ready"
  /\ cmds < MaxCmds
  /\ cmds' = cmds + 1
  /\ \E s \in Range(IsoScreenSizes) :
       IsoScene_updateScreenSize(s[1] * PosScale, s[2] * PosScale)
  /\ placed' = 0 /\ attempts' = 0 /\ draws' = 0
  /\ sceneOp' = "updateScreenSize"
  /\ UNCHANGED <<conv, scene, obstaclePositions, obstacleCubes, cubesGen, selectionVars,
                 sceneHistory, charVars>>

IsoRegenerated ==
  /\ scene = "IsoScene" /\ pc \in {"updateScreenSize:tile", "updateScreenSize:grid"}
  /\ ~IsoGenerating
  /\ IsoScene_updateScreenSizeEnd
  /\ pc' = "ready"
  /\ placed' = 0 /\ attempts' = 0 /\ draws' = 0
  /\ UNCHANGED <<conv, scene, tileSize, extendedGridSize, obstacles, obstaclePositions,
                 selectionVars, spawn, lastClick, ticksSinceClick, sceneOp, charVars,
                 cmds>>

TopDownGenerate ==
  /\ scene = "TopDownScene" /\ pc = "constructor"
  /\ TopDownGenerating
  /\ \E cell \in TopDownDraws : createObstacles(cell)
  /\ draws' = Min(draws + 1, maxAttempts + 1)
  /\ UNCHANGED <<conv, scene, pc, screenVars, gridVars, obstacles, obstacleCubes, cubesGen,
                 selectionVars, attempts, sceneHistory, sceneOp, charVars, cmds>>

TopDownConstructed ==
  /\ scene = "TopDownScene" /\ pc = "constructor"
  /\ ~TopDownGenerating
  /\ TopDownScene_constructor
  /\ pc' = "ready"
  /\ sceneOp' = "constructor"
  /\ placed' = 0 /\ draws' = 0
  /\ UNCHANGED <<conv, scene, tileSize, extendedGridSize, tiles, obstacleVars, selectionVars,
                 attempts, lastClick, ticksSinceClick, cmds>>

TopDownHandleClick ==
  /\ scene = "TopDownScene" /\ pc = "ready"
  /\ cmds < MaxCmds
  /\ cmds' = cmds + 1
  /\ \E c \in TopDownClickCells :
       TopDownScene_handleClick(c[1] * tileSize + tileSize \div 2 + sceneX,
                                c[2] * tileSize + tileSize \div 2 + sceneY)
  /\ ticksSinceClick' = 0
  /\ sceneOp' = "handleClick"
  /\ UNCHANGED <<conv, scene, pc, screenVars, tileSize, extendedGridSize, tiles,
                 obstacleVars, selectionVars, generatorVars, spawn, generated>>

\* An update that also empties the obstacle set (not the program's).
TopDownUpdateClearing ==
  /\ scene = "TopDownScene" /\ pc = "ready"
  /\ \E dt \in SceneDeltaTimes : TopDownScene_update(dt)
  /\ ticksSinceClick' = Min(ticksSinceClick + 1, 2)
  /\ sceneOp' = "update"
  /\ obstaclePositions' = {}
  /\ UNCHANGED <<conv, scene, pc, gridVars, obstacles, obstacleCubes, cubesGen,
                 selectionVars, generatorVars, spawn, generated, lastClick, cmds>>

TopDownUpdate ==
  /\ scene = "TopDownScene" /\ pc = "ready"
  /\ \E dt \in SceneDeltaTimes : TopDownScene_update(dt)
  /\ ticksSinceClick' = Min(ticksSinceClick + 1, 2)
  /\ sceneOp' = "update"
  /\ UNCHANGED <<conv, scene, pc, gridVars, obstacleVars, selectionVars, generatorVars,
                 spawn, generated, lastClick, cmds>>

TopDownUpdateScreenSize ==
  /\ scene = "TopDownScene" /\ pc = "ready"
  /\ cmds < MaxCmds
  /\ cmds' = cmds + 1
  /\ \E s \in Range(TopDownScreenSizes) :
       TopDownScene_updateScreenSize(s[1] * PosScale, s[2] * PosScale)
  /\ sceneOp' = "updateScreenSize"
  /\ UNCHANGED <<conv, scene, pc, tileSize, tiles, obstacleVars, selectionVars,
                 generatorVars, sceneHistory, charVars>>

SceneNext ==
  \/ IsoGenerate
  \/ IsoConstructed
  \/ IsoHandleClick
  \/ IsoHandleMouseMove
  \/ IsoUpdate
  \/ IsoUpdateScreenSize
  \/ IsoRegenerated
  \/ TopDownGenerate
  \/ TopDownConstructed
  \/ TopDownHandleClick
  \/ TopDownUpdate
  \/ TopDownUpdateScreenSize

SpecScene == SceneInit /\ [][SceneNext]_vars

-----------------------------------------------------------------------------
(* The scenes with a given obstacle field: a scene of 20 x 20 cells as its  *)
(* constructor leaves it, the character on the centre cell (10, 10).        *)

\* The grid of the scenarios: gridSize of the program.
ScenarioGridSize == 20

\* The obstacle fields, in the order of insertion, and the cells clicked: two
\* cells of the grid and two places outside of it.
ScenarioObstacles == {<<>>, <<<<11, 10>>>>}
ScenarioClickCells == {<<15, 10>>, <<12, 10>>, <<21, 10>>, <<10, -2>>}

\* The state the constructor of the scene leaves for the obstacles cells.
ScenarioStart(name, cells) ==
  LET n == ScenarioGridSize
      width == (IF name = "IsoScene" THEN IsoScreenSizes[1][1]
                ELSE TopDownScreenSizes[1][1]) * PosScale
      height == (IF name = "IsoScene" THEN IsoScreenSizes[1][2]
                 ELSE TopDownScreenSizes[1][2]) * PosScale
      t == IF name = "IsoScene" THEN IsoTileSize(width) ELSE TopDownTileSize
      center == IF name = "IsoScene" THEN IsoCenter(n) ELSE TopDownCenter(n)
      pos == IF name = "IsoScene" THEN isoToScreen(center, center, t)
             ELSE <<(n * t) \div 2, (n * t) \div 2>>
  IN  /\ scene = name
      /\ pc = "ready"
      /\ screenWidth = width /\ screenHeight = height
      /\ sceneX = width \div 2 - pos[1] /\ sceneY = height \div 2 - pos[2]
      /\ tileSize = t
      /\ extendedGridSize = n
      /\ grid = BuildGrid(n, Range(cells))
      /\ tiles = IF name = "IsoScene" THEN [size |-> n, gen |-> 1]
                 ELSE [size |-> 0, gen |-> 0]
      /\ obstacles = IF name = "IsoScene" THEN cells ELSE <<>>
      /\ obstaclePositions = IF name = "IsoScene" THEN {} ELSE Range(cells)
      /\ obstacleCubes = IF name = "IsoScene" THEN cells ELSE <<>>
      /\ cubesGen = IF name = "IsoScene" THEN 1 ELSE 0
      /\ selectedCube = Null
      /\ selectedTile = Null
      /\ selectedTileKey = Null
      /\ adjacentTiles = <<>>
      /\ placed = 0 /\ attempts = 0 /\ draws = 0
      /\ spawn = pos
      /\ generated = <<center, center>>
      /\ lastClick = NoClick
      /\ ticksSinceClick = 0
      /\ sceneOp = "constructor"
      \* the character after setPosition(pos)
      /\ currentX = pos[1] /\ currentY = pos[2]
      /\ targetX = pos[1] /\ targetY = pos[2]
      /\ isMoving = FALSE
      /\ path = <<>>
      /\ currentPathIndex = 0
      /\ finalTargetPosition = Null
      /\ currentRotationY = 0
      /\ targetRotationY = 0
      /\ updateResult = "none"
      /\ lastOp = "setPosition"
      /\ lastPath = <<>>
      /\ pathStart = <<0, 0>>
      /\ ticks = 0
      /\ runDt = 0
      /\ prevPath = <<>>
      /\ wasMoving = FALSE
      /\ arrived = FALSE

ScenarioInit ==
  /\ cmds = 0
  /\ conv = NoConv
  /\ \E name \in {"IsoScene", "TopDownScene"}, cells \in ScenarioObstacles :
       ScenarioStart(name, cells)

\* The click of a scenario, on the centre of a cell: the first call on the scene.
ScenarioIsoClick ==
  /\ scene = "IsoScene" /\ pc = "ready"
  /\ cmds = 0
  /\ cmds' = cmds + 1
  /\ \E c \in ScenarioClickCells :
       LET world == isoToScreen(c[1], c[2], tileSize)
       IN  IsoScene_handleClick(world[1] + sceneX, world[2] + sceneY)
  /\ ticksSinceClick' = 0
  /\ sceneOp' = "handleClick"
  /\ UNCHANGED <<conv, scene, pc, screenVars, tileSize, extendedGridSize, tiles,
                 obstacleVars, generatorVars, spawn, generated>>

ScenarioTopDownClick ==
  /\ scene = "TopDownScene" /\ pc = "ready"
  /\ cmds = 0
  /\ cmds' = cmds + 1
  /\ \E c \in ScenarioClickCells :
       TopDownScene_handleClick(c[1] * tileSize + tileSize \div 2 + sceneX,
                                c[2] * tileSize + tileSize \div 2 + sceneY)
  /\ ticksSinceClick' = 0
  /\ sceneOp' = "handleClick"
  /\ UNCHANGED <<conv, scene, pc, screenVars, tileSize, extendedGridSize, tiles,
                 obstacleVars, selectionVars, generatorVars, spawn, generated>>

ScenarioNext ==
  \/ ScenarioIsoClick
  \/ ScenarioTopDownClick
  \/ IsoUpdate
  \/ TopDownUpdate

SpecScenario == ScenarioInit /\ [][ScenarioNext]_vars

-----------------------------------------------------------------------------
(* IsoUtils on its own: a cell and a tile size are drawn, the cell is        *)
(* converted to the screen and back.                                       *)

\* The cells and the tile sizes converted: 8, 10.5, 12.5, 7.75, 19 and 27.
MaxCell == 6
ConvCells == {<<x, y>> : x \in 0..MaxCell, y \in 0..MaxCell}
ConvTileSizes ==
  {Fl(8, 0), Fl(21, 0 - 1), Fl(25, 0 - 1), Fl(31, 0 - 2), Fl(19, 0), Fl(27, 0)}

ConvInit ==
  /\ CharInit
  /\ cmds = 0
  /\ NoScene
  /\ \E c \in ConvCells, t \in ConvTileSizes :
       conv = [NoConv EXCEPT !.stage = "cell", !.cell = c, !.tileSize = t]

IsoToScreen ==
  /\ conv.stage = "cell"
  /\ conv' = [conv EXCEPT
                !.stage = "screen",
                !.screen = IsoUtils_isoToScreen(conv.cell[1], conv.cell[2], conv.tileSize)]
  /\ UNCHANGED <<charVars, cmds, scene, pc, screenVars, gridVars, obstacleVars,
                 selectionVars, generatorVars, sceneHistory, sceneOp>>

ScreenToIso ==
  /\ conv.stage = "screen"
  /\ conv' = [conv EXCEPT
                !.stage = "iso",
                !.iso = IsoUtils_screenToIso(conv.screen.x, conv.screen.y, conv.tileSize)]
  /\ UNCHANGED <<charVars, cmds, scene, pc, screenVars, gridVars, obstacleVars,
                 selectionVars, generatorVars, sceneHistory, sceneOp>>

ConvNext ==
  \/ IsoToScreen
  \/ ScreenToIso

SpecConv == ConvInit /\ [][ConvNext]_vars

-----------------------------------------------------------------------------
(* Tile resolution on its own: a world point is drawn near a corner of the  *)
(* 20 x 20 grid of IsoScene, inside and outside the grid, and               *)
(* findTileAtScreenPosition is asked for its tile.                          *)

\* The points drawn: around the centre of a corner tile, every quarter of the
\* tile size across and every eighth down, PointSpan of them to each side.
PointSpan == 8
TileCorners == {<<0, 0>>, <<ScenarioGridSize - 1, 0>>}

TileInit ==
  /\ cmds = 0
  /\ ScenarioStart("IsoScene", <<>>)
  /\ \E corner \in TileCorners :
       \E a \in (0 - PointSpan)..PointSpan, b \in (0 - PointSpan)..PointSpan :
         LET centre == isoToScreen(corner[1], corner[2], tileSize)
         IN  conv = [stage |-> "point",
                     x |-> centre[1] + a * (tileSize \div 4),
                     y |-> centre[2] + b * (tileSize \div 8),
                     tile |-> <<>>]

\* this.findTileAtScreenPosition(worldX, worldY)
FindTile ==
  /\ conv.stage = "point"
  /\ conv' = [conv EXCEPT !.stage = "tile",
                          !.tile = findTileAtScreenPosition(conv.x, conv.y)]
  /\ UNCHANGED <<charVars, cmds, scene, pc, screenVars, gridVars, obstacleVars,
                 selectionVars, generatorVars, sceneHistory, sceneOp>>

SpecTile == TileInit /\ [][FindTile]_vars

-----------------------------------------------------------------------------
(* The hit test of a cube on its own: a world point is drawn around the     *)
(* cube of the obstacle (11,10) of IsoScene, and the cube is asked whether  *)
(* the point is inside it.                                                  *)

\* The points drawn: a lattice of tileSize / CubePoints about the centre of the
\* cube's tile, from beyond its left corner to beyond its right corner and from
\* above the top face to below the base.
CubePoints == 8
CubeCell == <<11, 10>>

CubeInit ==
  /\ cmds = 0
  /\ ScenarioStart("IsoScene", <<CubeCell>>)
  /\ \E a \in (0 - (CubePoints + 2))..(CubePoints + 2),
        b \in (0 - 2 * CubePoints)..CubePoints :
       LET centre == isoToScreen(CubeCell[1], CubeCell[2], tileSize)
       IN  conv = [stage |-> "point",
                   x |-> centre[1] + a * (tileSize \div CubePoints),
                   y |-> centre[2] + b * (tileSize \div CubePoints),
                   inside |-> FALSE]

\* cube.isPointInside(worldX, worldY)
IsPointInside ==
  /\ conv.stage = "point"
  /\ conv' = [conv EXCEPT !.stage = "cube",
                          !.inside = isPointInside(CubeCell, tileSize, conv.x, conv.y)]
  /\ UNCHANGED <<charVars, cmds, scene, pc, screenVars, gridVars, obstacleVars,
                 selectionVars, generatorVars, sceneHistory, sceneOp>>

SpecCube == CubeInit /\ [][IsPointInside]_vars

-----------------------------------------------------------------------------
(* The path planner on its own: a finder, a mask, a start and a goal cell   *)
(* are drawn, and the finder is asked for a path.                          *)

\* The masks searched: grids of PlannerGridSize x PlannerGridSize cells with at
\* most MaxBlocked obstacle cells.
PlannerGridSize == 3
MaxBlocked == 2
PlannerMasks ==
  {b \in SUBSET Cells(PlannerGridSize) : Cardinality(b) <= MaxBlocked}

PlannerInit ==
  /\ CharInit
  /\ cmds = 0
  /\ NoScene
  /\ \E finder \in {"IsoScene", "TopDownScene"}, b \in PlannerMasks :
       \E a \in Cells(PlannerGridSize) \ b, g \in Cells(PlannerGridSize) \ b :
         conv = [stage |-> "query", finder |-> finder, mask |-> b,
                 start |-> a, goal |-> g, found |-> <<>>]

\* this.pathfinder.findPath(startX, startY, goalX, goalY, this.grid)
FindPath ==
  /\ conv.stage = "query"
  /\ \E p \in findPath(conv.start, conv.goal, BuildGrid(PlannerGridSize, conv.mask),
                        allowDiagonal(conv.finder)) :
       conv' = [conv EXCEPT !.stage = "found", !.found = p]
  /\ UNCHANGED <<charVars, cmds, scene, pc, screenVars, gridVars, obstacleVars,
                 selectionVars, generatorVars, sceneHistory, sceneOp>>

SpecPlanner == PlannerInit /\ [][FindPath]_vars

-----------------------------------------------------------------------------
(* The character on its own: any caller, any order of calls.               *)

CharPoints ==
  {<<a * Spacing * PosScale, b * Spacing * PosScale>> : a \in 0..MaxCoord, b \in 0..1}

\* Non-empty sequences of at most n points of S without an immediate repetition.
RECURSIVE PathsUpTo(_, _)
PathsUpTo(S, n) ==
  IF n = 0 THEN {<<>>}
  ELSE LET shorter == PathsUpTo(S, n - 1)
       IN  shorter \cup
           {Append(q, x) : q \in {r \in shorter : Len(r) = n - 1}, x \in S}

CharPaths ==
  {q \in PathsUpTo(CharPoints, MaxPathLen) :
     /\ Len(q) > 0
     /\ \A i \in 1..(Len(q) - 1) : q[i] # q[i + 1]}

\* The final targets a caller passes: none, or the far corner of the lattice.
FinalTargets == {Null, <<MaxCoord * Spacing * PosScale, Spacing * PosScale>>}

SetPosition ==
  /\ cmds < MaxCmds
  /\ cmds' = cmds + 1
  /\ UNCHANGED sceneVars
  /\ \E q \in CharPoints : setPosition(q[1], q[2])

MoveTo ==
  /\ cmds < MaxCmds
  /\ cmds' = cmds + 1
  /\ UNCHANGED sceneVars
  /\ \E q \in CharPoints : moveTo(q[1], q[2])

\* moveAlongPath(points, undefined, finalTarget) and moveAlongPath(points, finalTarget)
MoveAlongPath ==
  /\ cmds < MaxCmds
  /\ cmds' = cmds + 1
  /\ UNCHANGED sceneVars
  /\ \E q \in CharPaths, ft \in FinalTargets :
       \/ moveAlongPath([fmt |-> "points", pts |-> q], Undefined, ft)
       \/ /\ ft # Null
          /\ moveAlongPath([fmt |-> "points", pts |-> q], ObjectArg(ft), Null)

\* moveAlongPath(tuples, tileSize): grid cells (0,0), (1,0) of tiles of Spacing pixels.
MoveAlongGridPath ==
  /\ cmds < MaxCmds
  /\ cmds' = cmds + 1
  /\ UNCHANGED sceneVars
  /\ \E q \in {<<<<0, 0>>>>, <<<<1, 0>>>>, <<<<1, 0>>, <<1, 1>>>>} :
       moveAlongPath([fmt |-> "tuples", pts |-> q], NumberArg(Spacing * PosScale), Null)

\* moveAlongPath([])
MoveAlongEmptyPath ==
  /\ cmds < MaxCmds
  /\ cmds' = cmds + 1
  /\ UNCHANGED sceneVars
  /\ moveAlongPath([fmt |-> "points", pts |-> <<>>], Undefined, Null)

RotateTowardsPosition ==
  /\ cmds < MaxCmds
  /\ cmds' = cmds + 1
  /\ UNCHANGED sceneVars
  /\ \E q \in CharPoints : rotateTowardsPosition(q[1], q[2])

Update ==
  /\ \E dt \in DeltaTimes : update(dt)
  /\ UNCHANGED <<cmds, sceneVars>>

Init ==
  /\ CharInit
  /\ cmds = 0
  /\ NoScene
  /\ conv = NoConv

Next ==
  \/ SetPosition
  \/ MoveTo
  \/ MoveAlongPath
  \/ MoveAlongGridPath
  \/ MoveAlongEmptyPath
  \/ RotateTowardsPosition
  \/ Update

Spec == Init /\ [][Next]_vars

\* A run: once moveAlongPath has stored a path, the caller only calls update, with
\* one frame time.  The game loop calls update on every frame.
RunUpdate ==
  /\ lastPath # <<>>
  /\ \E dt \in DeltaTimes : (runDt = 0 \/ runDt = dt) /\ update(dt)
  /\ UNCHANGED <<cmds, sceneVars>>

\* A frame of the game loop during a run: one more update() call is counted.  The
\* ticker calls update on every frame, so a run is never left without its next call.
Frame == lastPath # <<>> /\ isMoving /\ ticks < MaxTicks /\ ticks' = ticks + 1

BeforeRun ==
  /\ lastPath = <<>>
  /\ Next

RunNext ==
  \/ BeforeRun
  \/ RunUpdate

SpecRun == Init /\ [][RunNext]_vars /\ WF_ticks(Frame)

-----------------------------------------------------------------------------
(* The facing angle of the character on its own: a target angle is drawn,   *)
(* as rotateTowardsPosition leaves it for some pointer position.  Either    *)
(* the character stays Idle and update() turns it, or moveTo is called      *)
(* with the character's own position and update() finds it arrived.         *)

\* The target angles drawn: the multiples of AngleStep in [-Pi, Pi].
AngleStep == 2500
SnapAngles == {a * AngleStep : a \in (0 - (Pi \div AngleStep))..(Pi \div AngleStep)}

SnapInit ==
  /\ cmds = 0
  /\ NoScene
  /\ \E t \in SnapAngles, moving \in BOOLEAN :
       /\ conv = [stage |-> "angle", angle |-> t]
       /\ targetRotationY = t
       /\ isMoving = moving
       /\ currentRotationY \in (IF moving THEN {0, t} ELSE {0, Pi})
       /\ lastOp = (IF moving THEN "moveTo" ELSE "rotateTowardsPosition")
  /\ currentX = 0 /\ currentY = 0
  /\ targetX = 0 /\ targetY = 0
  /\ path = <<>>
  /\ currentPathIndex = 0
  /\ finalTargetPosition = Null
  /\ updateResult = "none"
  /\ lastPath = <<>>
  /\ pathStart = <<0, 0>>
  /\ ticks = 0
  /\ runDt = 0
  /\ prevPath = <<>>
  /\ wasMoving = FALSE
  /\ arrived = FALSE

SpecSnap == SnapInit /\ [][Update]_vars

\* The ticker calls update() on every frame: a call that still changes an angle
\* is not put off for ever.
SpecTurn == SnapInit /\ [][Update]_vars /\ WF_vars(Update)

-----------------------------------------------------------------------------
(* Claims about the character                                              *)

Position == <<currentX, currentY>>
Target == <<targetX, targetY>>
InRun == lastPath # <<>>
LastWaypoint == lastPath[Len(lastPath)]

\* The agent is Idle, as the claims describe it.
IdleAtEnd ==
  /\ updateResult = "false"
  /\ ~isMoving
  /\ path = <<>>
  /\ currentPathIndex = 0
  /\ finalTargetPosition = Null
  /\ Position = LastWaypoint

\* C1: after moveAlongPath with a non-empty path, repeated update(dt) calls with a
\* fixed dt and no other move call lead, after finitely many ticks, to update
\* returning false with the agent Idle at the last waypoint.
C1_Arrives == InRun ~> (InRun /\ IdleAtEnd)

\* C1 witness: a two-waypoint run that has ended Idle at its last waypoint.
C1_Witness ==
  /\ InRun /\ Len(lastPath) = 2 /\ pathStart # lastPath[1]
  /\ ticks >= 4
  /\ wasMoving
  /\ IdleAtEnd

\* Euclidean length of the segment a-b, rounded up to a length unit.
SegmentLength(a, b) ==
  CeilSqrt((a[1] - b[1]) * (a[1] - b[1]) + (a[2] - b[2]) * (a[2] - b[2]))

\* Length of the polyline start, q[1], ..., q[Len(q)].
RECURSIVE PolylineLength(_, _)
PolylineLength(start, q) ==
  IF q = <<>> THEN 0
  ELSE SegmentLength(start, Head(q)) + PolylineLength(Head(q), Tail(q))

\* Sum over the legs of ceil(leg / step) + 1.
RECURSIVE LegTicks(_, _, _)
LegTicks(start, q, step) ==
  IF q = <<>> THEN 0
  ELSE CeilDiv(SegmentLength(start, Head(q)), step) + 1
       + LegTicks(Head(q), Tail(q), step)

\* ceil(totalPathLength / (s * dt)) of the current run.
SpecTicks == CeilDiv(PolylineLength(pathStart, lastPath), MoveStep(runDt))

NearLastWaypoint ==
  (currentX - LastWaypoint[1]) * (currentX - LastWaypoint[1])
  + (currentY - LastWaypoint[2]) * (currentY - LastWaypoint[2])
    <= ArrivalEps * ArrivalEps

\* C2 as stated: after ceil(totalPathLength / (s * dt)) calls of update(dt) the last
\* call has returned false and the position is the final waypoint (within 0.1).
C2_Original ==
  (InRun /\ runDt > 0 /\ ticks < MaxTicks /\ ticks = SpecTicks)
    => (updateResult = "false" /\ NearLastWaypoint)

\* C2 amended: the agent spends one more call on every waypoint (the call that
\* finds the distance below 0.1) and a step never carries over a waypoint, so
\* update(dt) has returned false, with the position equal to the final waypoint,
\* once sum over the legs of (ceil(leg / (s * dt)) + 1) calls have been made; and
\* it returns false in a run only at the final waypoint.
C2_Amended ==
  /\ (InRun /\ runDt > 0 /\ ticks < MaxTicks
        /\ ticks >= LegTicks(pathStart, lastPath, MoveStep(runDt)))
       => (updateResult = "false" /\ Position = LastWaypoint /\ ~isMoving)
  /\ (InRun /\ runDt > 0 /\ (updateResult = "false" \/ ~isMoving))
       => (updateResult = "false" /\ Position = LastWaypoint /\ ~isMoving)

\* C2 witness: a run of two legs of several steps each, after exactly that many calls.
C2_Witness ==
  /\ InRun /\ runDt > 0 /\ Len(lastPath) = 2
  /\ ticks < MaxTicks
  /\ ticks = LegTicks(pathStart, lastPath, MoveStep(runDt))
  /\ ticks >= 6
  /\ updateResult = "false" /\ Position = LastWaypoint

\* C3: right after moveAlongPath with a non-empty path, called in any state, the
\* stored path is exactly the new waypoints, the index is 0, the target is the
\* first new waypoint and isMoving is true; and for as long as the run lasts the
\* target is a waypoint of the new path.
C3_Replaces ==
  /\ (lastOp = "moveAlongPath") =>
       /\ path = lastPath
       /\ currentPathIndex = 0
       /\ Target = lastPath[1]
       /\ isMoving
  /\ (InRun /\ isMoving) =>
       /\ path = lastPath
       /\ Target = lastPath[currentPathIndex + 1]

\* C3 witness: moveAlongPath was called while the agent was Moving towards the
\* second waypoint of an earlier path, none of whose waypoints is in the new path,
\* and update has since advanced to the second new waypoint.
C3_Witness ==
  /\ InRun /\ wasMoving /\ Len(prevPath) = 2
  /\ Range(prevPath) \cap Range(lastPath) = {}
  /\ isMoving /\ currentPathIndex = 1

CanonicalAngles == {0, Pi \div 2, Pi, (3 * Pi) \div 2}

\* C4 as stated: after arrival, while the agent stays Idle and rotateTowardsPosition
\* is not called, currentRotationY is one of 0, PI/2, PI, 3PI/2.
C4_Original == arrived => currentRotationY \in CanonicalAngles

\* C4 amended: ... currentRotationY is one of 0, PI/2, PI, 3PI/2 modulo 2 PI: the
\* update after the arrival stores 3PI/2 as -PI/2.
C4_Amended == arrived => NormalizePositive(currentRotationY) \in CanonicalAngles

\* C4 witness: the agent has arrived facing 3PI/2 and a later update has run.
C4_Witness ==
  /\ arrived /\ ~isMoving /\ lastOp = "update"
  /\ targetRotationY = (3 * Pi) \div 2
  /\ currentRotationY = -(Pi \div 2)

-----------------------------------------------------------------------------
(* Claims about the clicks of the scenes                                   *)

\* The state right after a handleClick of a constructed scene.
JustClicked == scene # "none" /\ pc = "ready" /\ sceneOp = "handleClick"

\* The motion state of a tuple of character fields: position, target, moving
\* flag, path, index and final facing target.
MotionState(f) == <<f[1], f[2], f[3], f[4], f[5], f[6], f[7], f[8]>>

\* The obstacle cells of the scene.
ObstacleCells == IF scene = "IsoScene" THEN Range(obstacles) ELSE obstaclePositions

Adjacent8(a, b) == Max(Abs(a[1] - b[1]), Abs(a[2] - b[2])) = 1
IsDiagonal(a, b) == a[1] # b[1] /\ a[2] # b[2]
Blocked(c) == c \in ObstacleCells

\* The start cell followed by the waypoints handed to the character.
ClickRoute == <<lastClick.start>> \o lastClick.waypoints

\* What C5 asks of the step from a to b.
GoodStep(a, b) ==
  /\ ~Blocked(b)
  /\ ~(IsDiagonal(a, b) /\ Blocked(<<a[1], b[2]>>) /\ Blocked(<<b[1], a[2]>>))

C6_EmptyPathKeepsMotion ==
  /\ (JustClicked /\ lastClick.queried /\ lastClick.found = <<>>) =>
        MotionState(charFields) = MotionState(lastClick.before)
  /\ (/\ scene # "none" /\ sceneOp = "update" /\ ticksSinceClick = 1
      /\ lastClick.queried /\ lastClick.found = <<>>
      /\ ~lastClick.before[5]) =>
        /\ Position = <<lastClick.before[1], lastClick.before[2]>>
        /\ ~isMoving

\* The first update after a click of an idle character that the planner
\* answered with an empty path.
C6_Witness ==
  /\ scene # "none" /\ sceneOp = "update" /\ ticksSinceClick = 1
  /\ lastClick.queried /\ lastClick.found = <<>>
  /\ ~lastClick.before[5]

\* The four orthogonal neighbours of a cell.
OrthogonalNeighbours(c) ==
  {<<c[1] + 1, c[2]>>, <<c[1] - 1, c[2]>>, <<c[1], c[2] + 1>>, <<c[1], c[2] - 1>>}

\* The free neighbours: inside the grid and not an obstacle.
FreeNeighbours(c) ==
  {q \in OrthogonalNeighbours(c) : q \in Cells(extendedGridSize) /\ ~Blocked(q)}

Distance2(a, b) == (a[1] - b[1]) * (a[1] - b[1]) + (a[2] - b[2]) * (a[2] - b[2])

\* The cells of S nearest to cell c (Euclidean distance).
Nearest(S, c) == {q \in S : \A r \in S : Distance2(q, c) <= Distance2(r, c)}

\* C7 as stated (refuted by TopDownScene): after a click on an obstacle cell whose
\* four orthogonal neighbours are all inside the grid and walkable, the goal
\* given to the planner is a neighbour nearest to the start cell, and the final
\* facing target handed to the character is the obstacle's cell.
C7_Original ==
  (/\ JustClicked /\ lastClick.isCube
   /\ FreeNeighbours(lastClick.target) = OrthogonalNeighbours(lastClick.target)) =>
     /\ lastClick.queried
     /\ lastClick.goal \in Nearest(OrthogonalNeighbours(lastClick.target), lastClick.start)
     /\ lastClick.call = "moveAlongPath" => lastClick.final = lastClick.target

\* The cells the planner can reach from the start cell of the last click.
Reachable ==
  LET D == PathCosts(grid, scene = "IsoScene", lastClick.start)
  IN  {c \in Cells(grid.size) : D[c] < Unreached}

\* C8 as stated (refuted): after a click on an obstacle cell with at least one
\* orthogonal neighbour reachable from the start cell, the goal given to the
\* planner is a nearest reachable neighbour and the character is handed a
\* non-empty path.
C8_Original ==
  (/\ JustClicked /\ lastClick.isCube
   /\ OrthogonalNeighbours(lastClick.target) \cap Reachable # {}) =>
     /\ lastClick.queried
     /\ lastClick.goal \in
          Nearest(OrthogonalNeighbours(lastClick.target) \cap Reachable, lastClick.start)
     /\ lastClick.call = "moveAlongPath"
     /\ lastClick.waypoints # <<>>

\* A click of IsoScene on an obstacle cell none of whose orthogonal neighbours
\* is inside the grid and walkable.
EnclosedCubeClicked ==
  /\ JustClicked /\ scene = "IsoScene"
  /\ lastClick.isCube
  /\ FreeNeighbours(lastClick.target) = {}

\* C9 as stated (refuted): such a click changes neither the motion state nor the
\* selection and highlight state.
C9_Original ==
  EnclosedCubeClicked =>
     /\ MotionState(charFields) = MotionState(lastClick.before)
     /\ selectionVars = lastClick.selBefore

\* C9 (amended): such a click leaves the motion state and the tile highlight
\* (selected tile, its key, the adjacent tiles) as they were and the planner is
\* not queried; the clicked cube becomes the selected cube.
C9_Amended ==
  EnclosedCubeClicked =>
     /\ MotionState(charFields) = MotionState(lastClick.before)
     /\ ~lastClick.queried
     /\ <<selectedTile, selectedTileKey, adjacentTiles>> =
          <<lastClick.selBefore[2], lastClick.selBefore[3], lastClick.selBefore[4]>>
     /\ selectedCube = <<lastClick.target, cubesGen>>

\* An enclosed cube clicked while the character walks and a tile is highlighted.
C9_Witness ==
  /\ EnclosedCubeClicked
  /\ isMoving
  /\ lastClick.selBefore[2] # Null

\* The cell of the scene that holds the position where the character was created.
SpawnCell ==
  IF scene = "IsoScene"
  THEN LET iso == screenToIso(spawn[1], spawn[2], tileSize)
       IN  <<Clamp(Floor(iso.xn, iso.d), extendedGridSize),
             Clamp(Floor(iso.yn, iso.d), extendedGridSize)>>
  ELSE TopDownCell(spawn[1], spawn[2])

\* No obstacle lies in the exclusion zone of cell c: Chebyshev distance 1 in
\* IsoScene, Manhattan distance 2 in TopDownScene.
ClearAround(c) ==
  \A o \in ObstacleCells :
     IF scene = "IsoScene"
     THEN Max(Abs(o[1] - c[1]), Abs(o[2] - c[2])) > avoidRadius
     ELSE Abs(o[1] - c[1]) + Abs(o[2] - c[2]) > StartDistance

\* C10 as stated (refuted by IsoScene.updateScreenSize): after every obstacle
\* generation no obstacle lies in the exclusion zone of the grid centre the
\* generation used, and that centre is the cell where the character was created.
C10_Original ==
  (scene # "none" /\ pc = "ready") =>
     /\ ClearAround(generated)
     /\ generated = SpawnCell

-----------------------------------------------------------------------------
(* Claims about the obstacle generators, the mask and the resizes.         *)

\* The generator loop of the scene is between two of its iterations.
GeneratorRunning ==
  /\ scene # "none" /\ pc # "ready"
  /\ IF scene = "IsoScene" THEN IsoGenerating ELSE TopDownGenerating

\* C11: the sampling loop of a generator stops once the target count of
\* obstacles is placed or once the budget of attempts (the target count times
\* the attempts per obstacle, rejected draws included) is spent, whichever
\* comes first, and never places more obstacles than the target: the loop is
\* never about to draw again with the budget spent or the target reached.
C11_Original ==
  (scene # "none" /\ pc # "ready") =>
    /\ placed <= obstacleCount
    /\ GeneratorRunning => (draws < maxAttempts /\ placed < obstacleCount)

\* The same statement for the generator of IsoScene alone.
C11_IsoScene == (scene = "IsoScene") => C11_Original

\* The generator of IsoScene gives up with its budget spent and fewer
\* obstacles than the target.
C11_IsoGivesUp ==
  /\ scene = "IsoScene" /\ pc = "constructor"
  /\ attempts = maxAttempts /\ placed < obstacleCount

\* C12: at every path query of handleClick, whatever constructions, clicks,
\* ticks and resizes came before, the mask has the bounds of the grid and marks
\* a cell of the grid as blocked exactly when the cell is in the obstacle set
\* of the scene.
C12_MaskConsistent ==
  (JustClicked /\ lastClick.queried) =>
    /\ grid.size = extendedGridSize
    /\ \A c \in Cells(extendedGridSize) :
         ~isWalkableAt(grid, c) <=> c \in ObstacleCells

\* A path query after a resize that changed the bounds of the mask, with
\* obstacles inside and outside the new bounds.
C12_Witness ==
  /\ JustClicked /\ lastClick.queried
  /\ grid.blocked # {}
  /\ ObstacleCells \ Cells(grid.size) # {}

\* A path query after a regeneration of the obstacles of IsoScene.
C12_WitnessRegenerated ==
  /\ JustClicked /\ lastClick.queried
  /\ scene = "IsoScene" /\ cubesGen > 1
  /\ grid.blocked # {}

\* A step that adds an obstacle cell to the obstacle set or removes one.
ObstaclesChange ==
  \/ Range(obstacles') # Range(obstacles)
  \/ obstaclePositions' # obstaclePositions

\* C13: handleClick, handleMouseMove and update never add or remove an obstacle
\* cell: every step that changes the obstacle set is a step of the generator
\* inside the constructor or a step of updateScreenSize.
C13_ObstaclesImmutable ==
  [][ObstaclesChange => (pc = "constructor" \/ sceneOp' = "updateScreenSize")]_vars

\* Clicks and ticks have acted on a scene with obstacles.
C13_Witness ==
  /\ scene # "none" /\ pc = "ready"
  /\ ObstacleCells # {}
  /\ lastClick.call = "moveAlongPath"
  /\ sceneOp = "update"
  /\ cmds = MaxCmds

\* A step that is a call of updateScreenSize, up to its generator if it has one.
ResizeCall ==
  /\ scene # "none" /\ pc = "ready"
  /\ cmds' = cmds + 1
  /\ sceneOp' = "updateScreenSize"

\* The tile size derived from the new screen differs from the current one by
\* more than 10% of the current one (the tile size of TopDownScene is fixed).
TileSizeChanges ==
  /\ scene = "IsoScene"
  /\ 10 * Abs(IsoTileSize(screenWidth') - tileSize) > tileSize

\* The grid size derived from the new screen and the current tile size differs
\* from the current one by more than the threshold.
GridSizeChanges ==
  LET newExtendedGridSize ==
        IF scene = "IsoScene"
        THEN IsoGridSize(screenWidth', screenHeight', tileSize)
        ELSE TopDownGridSize(screenWidth', screenHeight', tileSize)
  IN  Abs(newExtendedGridSize - extendedGridSize) > GridChangeThreshold

\* The call empties the obstacle set and runs the generator again.
Regenerates ==
  /\ pc' \in {"updateScreenSize:tile", "updateScreenSize:grid"}
  /\ obstacles' = <<>>

ObstaclesKept == obstacles' = obstacles /\ obstaclePositions' = obstaclePositions

\* C14 as stated: a resize regenerates the obstacles only if the derived tile
\* size changes by more than 10% of the current tile size; any other resize
\* leaves the obstacle set unchanged.
C14_Original ==
  [][ResizeCall => /\ Regenerates => TileSizeChanges
                   /\ ~TileSizeChanges => ObstaclesKept]_vars

\* C14 as the code has it: IsoScene regenerates the obstacles and the mask if
\* the tile size changes by more than 10% or else if the grid size changes by
\* more than the threshold, and otherwise changes neither the obstacles nor the
\* mask; TopDownScene never regenerates, and rebuilds the mask from the same
\* obstacle set with the new bounds if the grid size changes by more than the
\* threshold.
C14_Amended ==
  [][ResizeCall =>
       /\ Regenerates <=> (scene = "IsoScene" /\ (TileSizeChanges \/ GridSizeChanges))
       /\ ~Regenerates =>
            /\ ObstaclesKept
            /\ tileSize' = tileSize
            /\ IF scene = "TopDownScene" /\ GridSizeChanges
               THEN /\ grid'.size = extendedGridSize' /\ grid'.size # grid.size
                    /\ grid'.blocked = obstaclePositions \cap Cells(grid'.size)
               ELSE grid' = grid /\ extendedGridSize' = extendedGridSize]_vars

\* IsoScene regenerates its obstacles after a resize that kept the tile size.
C14_Witness ==
  /\ scene = "IsoScene" /\ pc = "updateScreenSize:grid"
  /\ tileSize = IsoTileSize(IsoScreenSizes[1][1] * PosScale)

\* A resize of IsoScene that changed the tile size, and one that changed nothing.
C14_WitnessTile == scene = "IsoScene" /\ pc = "updateScreenSize:tile"

C14_WitnessBounds ==
  /\ scene = "TopDownScene" /\ sceneOp = "updateScreenSize"
  /\ grid.size # TopDownGridSize(TopDownScreenSizes[1][1] * PosScale,
                                 TopDownScreenSizes[1][2] * PosScale, tileSize)
  /\ obstaclePositions # {}

-----------------------------------------------------------------------------
(* Claims about the camera and the coordinate conversions.                 *)

\* C15: after every update tick and after every updateScreenSize, the offset of
\* the scene is (screenWidth / 2 - x, screenHeight / 2 - y) for the position
\* (x, y) the character has after that same call.
C15_CameraFollows ==
  (scene # "none" /\ pc = "ready" /\ sceneOp \in {"update", "updateScreenSize"}) =>
    /\ 2 * (sceneX + currentX) = screenWidth
    /\ 2 * (sceneY + currentY) = screenHeight

\* A tick that moved the character away from where it was created.
C15_Witness ==
  /\ scene # "none" /\ pc = "ready" /\ sceneOp = "update"
  /\ isMoving
  /\ Position # spawn

\* A resize while the character is on its way.
C15_WitnessResize ==
  /\ scene # "none" /\ pc = "ready" /\ sceneOp = "updateScreenSize"
  /\ isMoving
  /\ Position # spawn

\* A conversion to the screen and back is complete.
RoundTripDone == conv.stage = "iso"

\* |f - n| <= 4 * bound * 2^(-Precision), for a number f of the format and
\* integers n and bound: a few roundings of values no larger than bound.
WithinRounding(f, n, bound) ==
  LET s == IF f[2] < 0 THEN 0 - f[2] ELSE 0
  IN  Abs(f[1] * 2^(f[2] + s) - n * 2^s) * 2^Precision <= 4 * bound * 2^s

IsPowerOfTwo(f) == Abs(f[1]) = 2^(Precision - 1)

\* C16 as stated: screenToIso applied to isoToScreen(x, y, t) with the same t
\* returns exactly (x, y).
C16_Original ==
  RoundTripDone =>
    /\ conv.iso.x = FlInt(conv.cell[1])
    /\ conv.iso.y = FlInt(conv.cell[2])

\* C16 as the code has it: the round trip returns (x, y) up to the rounding of
\* its floating-point operations (an error of at most a few units in the last
\* place of the larger coordinate), and exactly (x, y) when the tile size is a
\* power of two.
C16_Amended ==
  RoundTripDone =>
    LET x == conv.cell[1]
        y == conv.cell[2]
    IN  /\ WithinRounding(conv.iso.x, x, Max(x, y))
        /\ WithinRounding(conv.iso.y, y, Max(x, y))
        /\ IsPowerOfTwo(conv.tileSize) =>
             (conv.iso.x = FlInt(x) /\ conv.iso.y = FlInt(y))

\* A round trip that does not return the cell exactly.
C16_Witness ==
  /\ RoundTripDone
  /\ conv.iso.x # FlInt(conv.cell[1])
  /\ conv.cell[1] > 0 /\ conv.cell[2] > 0

\* A round trip with a tile size that is a power of two.
C16_WitnessExact ==
  /\ RoundTripDone
  /\ IsPowerOfTwo(conv.tileSize)
  /\ conv.cell[1] > 0 /\ conv.cell[2] > conv.cell[1]

-----------------------------------------------------------------------------
(* Claims about the scenarios and the waypoints handed to the character.   *)

\* The first click of a scenario, on the cell c, with the obstacle field cells:
\* the character was idle on the centre cell.
ScenarioClick(c, cells) ==
  /\ JustClicked /\ cmds = 1
  /\ extendedGridSize = ScenarioGridSize
  /\ ObstacleCells = cells
  /\ lastClick.target = c
  /\ lastClick.start = generated
  /\ ~lastClick.before[5]

\* C17 as stated: with no obstacles, the click on cell (15,10) hands the
\* character exactly 5 waypoints, all of them on the line y = 10.
C17_Original ==
  ScenarioClick(<<15, 10>>, {}) =>
    /\ lastClick.call = "moveAlongPath"
    /\ Len(lastClick.waypoints) = 5
    /\ \A i \in 1..Len(lastClick.waypoints) : lastClick.waypoints[i][2] = 10

\* C17 as the code has it: TopDownScene hands over the 5 cells (11,10) to
\* (15,10); IsoScene stops on the orthogonal neighbour of the clicked tile
\* nearest to the character and hands over the 4 cells (11,10) to (14,10),
\* with the clicked tile as the final facing target.
C17_Amended ==
  ScenarioClick(<<15, 10>>, {}) =>
    /\ lastClick.call = "moveAlongPath"
    /\ lastClick.waypoints =
         IF scene = "TopDownScene"
         THEN <<<<11, 10>>, <<12, 10>>, <<13, 10>>, <<14, 10>>, <<15, 10>>>>
         ELSE <<<<11, 10>>, <<12, 10>>, <<13, 10>>, <<14, 10>>>>
    /\ scene = "IsoScene" => lastClick.final = <<15, 10>>

\* The click of scenario A in IsoScene.
C17_Witness == ScenarioClick(<<15, 10>>, {}) /\ scene = "IsoScene"

\* The click of scenario A in TopDownScene.
C17_WitnessTopDown == ScenarioClick(<<15, 10>>, {}) /\ scene = "TopDownScene"

\* The cells of a sequence of waypoints.
Visits(waypoints, c) == \E i \in 1..Len(waypoints) : waypoints[i] = c

\* C18: with the single obstacle (11,10), the character idle on (10,10) and a
\* click on the walkable cell (12,10), the waypoints handed to the character
\* pass through cell (11,9) or cell (11,11), are at least 3, and avoid the
\* obstacle.
C18_ScenarioB ==
  ScenarioClick(<<12, 10>>, {<<11, 10>>}) =>
    /\ lastClick.call = "moveAlongPath"
    /\ Visits(lastClick.waypoints, <<11, 9>>) \/ Visits(lastClick.waypoints, <<11, 11>>)
    /\ Len(lastClick.waypoints) >= 3
    /\ ~Visits(lastClick.waypoints, <<11, 10>>)

\* The click of scenario B in IsoScene, where the diagonal step past the corner
\* of the obstacle is refused.
C18_Witness ==
  /\ ScenarioClick(<<12, 10>>, {<<11, 10>>})
  /\ scene = "IsoScene"
  /\ lastClick.call = "moveAlongPath"

\* The click of scenario B in TopDownScene.
C18_WitnessTopDown ==
  /\ ScenarioClick(<<12, 10>>, {<<11, 10>>})
  /\ scene = "TopDownScene"
  /\ lastClick.call = "moveAlongPath"

\* A click that started a move along a path.
StartedMove == JustClicked /\ lastClick.call \in {"moveAlongPath", "moveTo"}

\* Two cells next to each other, diagonals included.
NextTo(a, b) == Max(Abs(a[1] - b[1]), Abs(a[2] - b[2])) = 1

\* C19: for every click that starts movement, the waypoints handed to the
\* character do not contain the start cell: the first is a cell adjacent to the
\* start cell and the last is the goal of the path.
C19_Original ==
  StartedMove =>
    /\ lastClick.waypoints # <<>>
    /\ ~Visits(lastClick.waypoints, lastClick.start)
    /\ NextTo(lastClick.waypoints[1], lastClick.start)
    /\ lastClick.waypoints[Len(lastClick.waypoints)] = lastClick.goal

\* The same statement for the clicks whose goal is another cell than the start
\* cell.
C19_GoalElsewhere == (lastClick.goal # lastClick.start) => C19_Original

\* A click whose goal is the start cell started a move to that cell.
C19_StartIsGoal ==
  /\ StartedMove
  /\ lastClick.goal = lastClick.start
  /\ lastClick.waypoints = <<lastClick.start>>

\* A click of an idle character whose goal is the cell the character is on.
ResolvesToOwnCell ==
  /\ JustClicked /\ lastClick.queried
  /\ lastClick.goal = lastClick.start
  /\ ~lastClick.before[5]

\* C20: a click that resolves to the current cell of the character is treated
\* as already arrived: the path is empty, neither moveAlongPath nor moveTo is
\* called, the character stays idle and its position is unchanged.
C20_Original ==
  ResolvesToOwnCell =>
    /\ lastClick.found = <<>>
    /\ lastClick.call = "none"
    /\ ~isMoving
    /\ Position = <<lastClick.before[1], lastClick.before[2]>>

\* After such a click the next tick moves the character inside its cell.
C20_MovesInsideCell ==
  /\ scene # "none" /\ pc = "ready" /\ sceneOp = "update"
  /\ lastClick.queried /\ lastClick.goal = lastClick.start
  /\ ~lastClick.before[5]
  /\ Position # <<lastClick.before[1], lastClick.before[2]>>

-----------------------------------------------------------------------------
(* Claims about the cells a click resolves.                                *)

\* A cell of the current grid.
InGrid(c) == c \in Cells(extendedGridSize)

\* C21: for every screen point, points outside the grid included, the target
\* cell resolved by handleClick, the start cell of the character and the goal
\* cell passed to the planner lie within the bounds of the current grid.
C21_CellsInBounds ==
  JustClicked =>
    /\ InGrid(lastClick.target)
    /\ InGrid(lastClick.start)
    /\ lastClick.queried => InGrid(lastClick.goal)

\* A click beyond the last column of the grid was resolved and planned for.
C21_Witness ==
  /\ JustClicked /\ extendedGridSize = ScenarioGridSize
  /\ lastClick.target = <<ScenarioGridSize - 1, 10>>
  /\ lastClick.queried
  /\ lastClick.call = "moveAlongPath"

\* A click above the first row of the grid.
C21_WitnessAbove ==
  /\ JustClicked /\ extendedGridSize = ScenarioGridSize
  /\ lastClick.target[2] = 0
  /\ lastClick.queried

-----------------------------------------------------------------------------
(* Claims about one update() call                                          *)

\* update() is called on a Moving agent whose waypoint is at least 0.1 away.
MovingTick ==
  /\ lastOp' = "update" /\ cmds' = cmds
  /\ isMoving
  /\ Distance2(Position, Target) >= ArrivalEps * ArrivalEps

\* The displacement of the step and what is left to the waypoint before it.
StepVector == <<currentX' - currentX, currentY' - currentY>>
Remaining == <<targetX - currentX, targetY - currentY>>
Dot(a, b) == a[1] * b[1] + a[2] * b[2]
Cross(a, b) == a[1] * b[2] - a[2] * b[1]

\* The step has length len, to the length unit the positions are kept in.
StepHasLength(len) ==
  LET moved == Dot(StepVector, StepVector)
  IN  /\ moved >= (len - 1) * (len - 1)
      /\ moved <= (len + 1) * (len + 1)

C22_WitnessExact ==
  /\ lastOp = "update" /\ updateResult = "true" /\ isMoving
  /\ InRun /\ ticks >= 2 /\ Position = Target

-----------------------------------------------------------------------------
(* Claims about a run along a path                                         *)

\* p lies on the straight segment from a to b, to the length unit positions are
\* kept in.
OnSegment(p, a, b) ==
  LET ab == <<b[1] - a[1], b[2] - a[2]>>
      ap == <<p[1] - a[1], p[2] - a[2]>>
  IN  /\ Abs(Cross(ab, ap)) <= CeilSqrt(Dot(ab, ab))
      /\ Dot(ab, ap) >= 0
      /\ Dot(ab, ap) <= Dot(ab, ab)

\* The i-th waypoint of the run has been reached: the position is exactly that
\* waypoint and the agent has turned to the next one, or stopped on the last.
ReachedWaypoint(i) ==
  /\ InRun /\ Len(lastPath) >= i
  /\ Position = lastPath[i]
  /\ IF i < Len(lastPath) THEN isMoving /\ currentPathIndex = i
     ELSE ~isMoving

\* C23: for an uninterrupted path w1..wn the position becomes exactly w1, then
\* w2, ..., then wn, in that order and with none skipped, and between reaching
\* wi and reaching wi+1 the position stays on the straight segment from wi to wi+1.
C23_WaypointsInOrder ==
  /\ \A i \in 1..MaxPathLen :
       (InRun /\ ticks = 0 /\ Len(lastPath) >= i) ~> ReachedWaypoint(i)
  /\ [][(InRun /\ lastPath' = lastPath /\ isMoving
           /\ (currentPathIndex' # currentPathIndex \/ ~isMoving'))
          => /\ Position' = lastPath[currentPathIndex + 1]
             /\ IF currentPathIndex + 1 < Len(lastPath)
                THEN isMoving' /\ currentPathIndex' = currentPathIndex + 1
                ELSE ~isMoving']_vars
  /\ []((InRun /\ isMoving /\ currentPathIndex >= 1) =>
          /\ path = lastPath
          /\ OnSegment(Position, lastPath[currentPathIndex],
                       lastPath[currentPathIndex + 1]))

\* C23 witness: on the way from the first waypoint to the second, strictly
\* between them, after the first was reached.
C23_Witness ==
  /\ InRun /\ isMoving /\ Len(lastPath) = 2 /\ currentPathIndex = 1
  /\ pathStart # lastPath[1]
  /\ Position # lastPath[1] /\ Position # lastPath[2]
  /\ OnSegment(Position, lastPath[1], lastPath[2])

\* C23 witness: the second waypoint reached after the first, the run over.
C23_WitnessEnd == ReachedWaypoint(2) /\ pathStart # lastPath[1] /\ ticks >= 5

-----------------------------------------------------------------------------
(* Claims about the path planner                                           *)

\* The finder has answered a query.
Planned == conv.stage = "found"
\* The steps of the path found: it lists the start cell and every cell after it.
PlannedSteps == Len(conv.found) - 1
Chebyshev(a, b) == Max(Abs(a[1] - b[1]), Abs(a[2] - b[2]))
Manhattan(a, b) == Abs(a[1] - b[1]) + Abs(a[2] - b[2])

\* The goal is a diagonal neighbour of the start, and the goal and the two cells
\* flanking the step are walkable.
FreeDiagonal ==
  /\ Abs(conv.goal[1] - conv.start[1]) = 1
  /\ Abs(conv.goal[2] - conv.start[2]) = 1
  /\ {conv.goal, <<conv.start[1], conv.goal[2]>>, <<conv.goal[1], conv.start[2]>>}
       \cap conv.mask = {}

\* What the claim says of a finder's answer.
EightDirectional ==
  /\ FreeDiagonal => (PlannedSteps = 1 /\ conv.found = <<conv.start, conv.goal>>)
  /\ (conv.mask = {}) => PlannedSteps = Chebyshev(conv.start, conv.goal)

\* C24 (as stated, refuted): in both scenes the planner is 8-directional without
\* corner cutting: the path to a diagonal neighbour that is walkable, with both
\* flanking orthogonal cells walkable, is one diagonal step, and on an
\* obstacle-free mask the number of steps equals the Chebyshev distance.
C24_Original == Planned => EightDirectional

\* The finder of IsoScene is as C24 says.
C24_IsoScene == (Planned /\ conv.finder = "IsoScene") => EightDirectional

\* The finder of TopDownScene takes orthogonal steps only: on an obstacle-free
\* mask the number of steps is the Manhattan distance.
C24_TopDownScene ==
  (Planned /\ conv.finder = "TopDownScene" /\ conv.mask = {}) =>
     PlannedSteps = Manhattan(conv.start, conv.goal)

\* The finder of IsoScene has crossed an obstacle-free mask from corner to corner.
C24_WitnessIso ==
  /\ Planned /\ conv.finder = "IsoScene" /\ conv.mask = {}
  /\ Chebyshev(conv.start, conv.goal) = PlannerGridSize - 1
  /\ Manhattan(conv.start, conv.goal) = 2 * (PlannerGridSize - 1)

-----------------------------------------------------------------------------
(* Claims about the facing angle                                           *)

\* The distance of two angles on the circle.
CircularDistance(a, b) ==
  LET d == (a - b) % (2 * Pi)
  IN  Min(d, 2 * Pi - d)

\* update() has found the character arrived, with the drawn target angle.
SnappedFrom(t) == arrived /\ lastOp = "update" /\ conv.stage = "angle" /\ conv.angle = t

\* update() finds the character arrived and calls snapToMainDirection; with no
\* final facing target the angle snapped is the targetRotationY before the call.
ArrivalTick ==
  /\ lastOp' = "update" /\ cmds' = cmds
  /\ isMoving /\ ~isMoving'
  /\ finalTargetPosition = Null

\* C25: snapToMainDirection sets both currentRotationY and targetRotationY to the
\* element of {0, pi/2, pi, 3pi/2} whose circular distance to the previous
\* targetRotationY is smallest, for every previous targetRotationY in [-pi, pi].
C25_SnapsToNearest ==
  [][ArrivalTick =>
       /\ currentRotationY' = targetRotationY'
       /\ targetRotationY' \in CanonicalAngles
       /\ \A d \in CanonicalAngles :
            CircularDistance(targetRotationY', targetRotationY)
              <= CircularDistance(d, targetRotationY)]_vars

\* C25 witness: a target angle of -100 degrees, below zero and nearer to 3pi/2
\* than to pi, has been snapped.
C25_Witness ==
  /\ SnappedFrom(0 - 100000)
  /\ targetRotationY = (3 * Pi) \div 2
  /\ currentRotationY = (3 * Pi) \div 2

\* C25 witness: the target angle -pi has been snapped to pi.
C25_WitnessEnd == SnappedFrom(0 - Pi) /\ targetRotationY = Pi

\* update() is called on a Moving agent whose waypoint is more than 0.1 away.
FacingTick ==
  /\ lastOp' = "update" /\ cmds' = cmds
  /\ isMoving
  /\ Distance2(Position, Target) > ArrivalEps * ArrivalEps

\* The leg is axis-aligned: |dx| <= 0.1 or |dy| <= 0.1.
AxisAligned(v) == Abs(v[1]) <= ArrivalEps \/ Abs(v[2]) <= ArrivalEps

\* The vector from position p to the final facing target.
ToFinalTarget(p) == <<finalTargetPosition[1] - p[1], finalTargetPosition[2] - p[2]>>

\* The angle calculateIsoRotation gives for the vector v.
FacingAngle(v) == calculateIsoRotation(v[1], v[2], targetRotationY)

\* C26: while Moving, each tick with remaining distance above 0.1 computes the
\* target facing angle from the vector toward the final facing target when one
\* is set and the current leg is axis-aligned (|dx| <= 0.1 or |dy| <= 0.1), and
\* from the vector toward the current waypoint otherwise; with no final facing
\* target it always uses the vector toward the current waypoint.
C26_FacingVector ==
  [][FacingTick =>
       targetRotationY' =
         IF finalTargetPosition # Null /\ AxisAligned(Remaining)
         THEN FacingAngle(ToFinalTarget(Position))
         ELSE FacingAngle(Remaining)]_vars

\* C26 witness: the first tick of an axis-aligned leg with a final facing target
\* off the leg has turned the target angle to the final target, not the waypoint.
C26_Witness ==
  /\ InRun /\ isMoving /\ lastOp = "update" /\ ticks = 1 /\ currentPathIndex = 0
  /\ finalTargetPosition # Null
  /\ pathStart[2] = Target[2] /\ pathStart[1] # Target[1]
  /\ targetRotationY = FacingAngle(ToFinalTarget(pathStart))
  /\ targetRotationY # FacingAngle(<<Target[1] - pathStart[1], Target[2] - pathStart[2]>>)

\* C26 witness: the first tick of a diagonal leg with a final facing target has
\* turned the target angle to the waypoint.
C26_WitnessDiagonal ==
  /\ InRun /\ isMoving /\ lastOp = "update" /\ ticks = 1 /\ currentPathIndex = 0
  /\ finalTargetPosition # Null
  /\ pathStart[2] # Target[2] /\ pathStart[1] # Target[1]
  /\ targetRotationY = FacingAngle(<<Target[1] - pathStart[1], Target[2] - pathStart[2]>>)
  /\ targetRotationY # FacingAngle(ToFinalTarget(pathStart))

\* The shortest-arc gap between the current and the target angle.
Gap == CircularDistance(currentRotationY, targetRotationY)

\* update() is called and leaves the target angle as it is.
TurningTick ==
  /\ lastOp' = "update" /\ cmds' = cmds
  /\ targetRotationY' = targetRotationY

\* C27: while the target facing angle stays fixed, an update tick never increases
\* the shortest-arc gap between the current and the target angle; a tick that
\* finds the gap below the 0.01 threshold sets the current angle equal to the
\* target (modulo 2 pi); and after finitely many ticks the current angle equals
\* the target (modulo 2 pi) and stays there.
C27_RotationConverges ==
  /\ [][TurningTick =>
         /\ CircularDistance(currentRotationY', targetRotationY') <= Gap
         /\ (Gap < RotationEps) =>
              CircularDistance(currentRotationY', targetRotationY') = 0]_vars
  /\ <>[](Gap = 0)

\* C27 witness: an Idle character that started half a turn away from a target
\* angle of 120 degrees has the current angle equal to it.
C27_Witness ==
  /\ ~isMoving /\ ~arrived /\ lastOp = "update"
  /\ conv.stage = "angle" /\ conv.angle = 120000
  /\ targetRotationY = 120000 /\ currentRotationY = 120000

\* C27 witness: on the way, the gap is neither the initial one nor below the threshold.
C27_WitnessTurning ==
  /\ ~isMoving /\ ~arrived /\ lastOp = "update"
  /\ conv.stage = "angle" /\ conv.angle = 0 - 90000
  /\ Gap > RotationEps /\ Gap < 10000

\* C27 witness: after an arrival that snapped to 3pi/2 the current angle is kept
\* at -pi/2, equal to the target modulo 2 pi.
C27_WitnessModulo ==
  /\ arrived /\ targetRotationY = (3 * Pi) \div 2 /\ currentRotationY = 0 - (Pi \div 2)

\* rotateTowardsPosition is called (by a caller of the character, or by
\* handleMouseMove).
PointerCall == lastOp' = "rotateTowardsPosition" /\ cmds' # cmds

\* C28: pointer tracking is Idle-only: while the agent is Moving,
\* rotateTowardsPosition changes neither targetRotationY nor any other agent
\* state; it can change the target facing angle only when the agent is not
\* moving, and it changes nothing but the target facing angle.
C28_PointerIdleOnly ==
  [][PointerCall =>
       /\ isMoving => charFields' = charFields
       /\ <<currentX', currentY', targetX', targetY', isMoving', path',
            currentPathIndex', finalTargetPosition', currentRotationY'>>
          = <<currentX, currentY, targetX, targetY, isMoving, path,
              currentPathIndex, finalTargetPosition, currentRotationY>>]_vars

\* C28 witness: rotateTowardsPosition was called in the middle of a leg, with the
\* pointer on a point the character is not heading for.
C28_Witness ==
  /\ lastOp = "rotateTowardsPosition" /\ isMoving
  /\ InRun /\ ticks >= 1 /\ Position # pathStart /\ Position # Target
  /\ targetRotationY = FacingAngle(<<Target[1] - Position[1], Target[2] - Position[2]>>)

\* C28 witness: called on an Idle character, it has turned the target angle.
C28_WitnessIdle ==
  /\ lastOp = "rotateTowardsPosition" /\ ~isMoving
  /\ targetRotationY # currentRotationY

-----------------------------------------------------------------------------
(* Claims about the shapes                                                 *)

\* findTileAtScreenPosition has answered for the point drawn.
TileFound == conv.stage = "tile"

\* The point drawn lies inside the diamond of tile c:
\* |dx| / halfWidth + |dy| / halfHeight <= 1 about the centre of the tile.
InDiamondOf(c) ==
  LET centre == isoToScreen(c[1], c[2], tileSize)
      halfWidth == tileSize
      halfHeight == tileSize \div 2
  IN  Abs(conv.x - centre[1]) * halfHeight + Abs(conv.y - centre[2]) * halfWidth
        <= halfWidth * halfHeight

\* The in-bounds tiles whose diamond contains the point.
ContainingTiles == {c \in Cells(extendedGridSize) : InDiamondOf(c)}

\* The fractional coordinate of the point and its four integer neighbours, in the
\* order they are tried.
PointIso == screenToIso(conv.x, conv.y, tileSize)
PointCandidates ==
  <<<<Floor(PointIso.xn, PointIso.d), Floor(PointIso.yn, PointIso.d)>>,
    <<Ceil(PointIso.xn, PointIso.d), Floor(PointIso.yn, PointIso.d)>>,
    <<Floor(PointIso.xn, PointIso.d), Ceil(PointIso.yn, PointIso.d)>>,
    <<Ceil(PointIso.xn, PointIso.d), Ceil(PointIso.yn, PointIso.d)>>>>

\* C29: for every world point inside the diamond of at least one in-bounds tile,
\* findTileAtScreenPosition returns an in-bounds tile whose diamond contains the
\* point, the first such among the four integer neighbours of the fractional
\* coordinate; only when no in-bounds candidate contains the point does it
\* return the rounded fractional coordinate clamped to the grid bounds.
C29_TileResolution ==
  TileFound =>
    /\ (ContainingTiles # {}) =>
         /\ conv.tile \in ContainingTiles
         /\ \E i \in 1..4 :
              /\ PointCandidates[i] = conv.tile
              /\ \A j \in 1..(i - 1) : PointCandidates[j] \notin ContainingTiles
    /\ (\A i \in 1..4 : PointCandidates[i] \notin ContainingTiles) <=>
         (ContainingTiles = {})
    /\ (ContainingTiles = {}) =>
         conv.tile = <<Clamp(Round(PointIso.xn, PointIso.d), extendedGridSize),
                       Clamp(Round(PointIso.yn, PointIso.d), extendedGridSize)>>

\* C29 witness: a point on the edge shared by two tiles, off the centre of both,
\* resolved to the first of them.
C29_Witness ==
  /\ TileFound
  /\ Cardinality(ContainingTiles) = 2
  /\ conv.tile \in ContainingTiles

\* C29 witness: a point beyond the last column, in no diamond, resolved to the
\* nearest tile of the last column.
C29_WitnessOutside ==
  /\ TileFound
  /\ ContainingTiles = {}
  /\ Round(PointIso.xn, PointIso.d) > extendedGridSize - 1
  /\ conv.tile[1] = extendedGridSize - 1

\* C29 witness: a point strictly inside one tile, off its centre.
C29_WitnessInside ==
  /\ TileFound
  /\ Cardinality(ContainingTiles) = 1
  /\ isoToScreen(conv.tile[1], conv.tile[2], tileSize) # <<conv.x, conv.y>>

\* The cube has answered for the point drawn.
CubeTested == conv.stage = "cube"

\* The point drawn, relative to the centre of the cube's tile.
CubeDx == conv.x - isoToScreen(CubeCell[1], CubeCell[2], tileSize)[1]
CubeDy == conv.y - isoToScreen(CubeCell[1], CubeCell[2], tileSize)[2]

\* (dx, dy) is in the diamond of half width tileSize and half height
\* tileSize / 2 about (0, offsetY): the base for offsetY = 0, the top face for
\* offsetY = -cubeHeight.
InDrawnDiamond(dx, dy, offsetY) ==
  2 * Abs(dx) * (tileSize \div 2) + 2 * Abs(dy - offsetY) * tileSize
    <= 2 * tileSize * (tileSize \div 2)

\* (dx, dy) is in a side face: a parallelogram from an edge of the base up to
\* the same edge of the top face.
InDrawnSides(dx, dy, height) ==
  /\ Abs(dx) <= tileSize
  /\ \E edge \in {-1, 1} :
       LET onEdge == edge * (tileSize \div 2) * (tileSize - Abs(dx))
       IN  /\ dy * tileSize <= onEdge
           /\ dy * tileSize >= onEdge - height * tileSize

\* The volume drawBase draws: the base, the top face and the four side faces.
InDrawnVolume ==
  LET cubeHeight == (tileSize * 12) \div 10
  IN  \/ InDrawnDiamond(CubeDx, CubeDy, 0)
      \/ InDrawnDiamond(CubeDx, CubeDy, 0 - cubeHeight)
      \/ InDrawnSides(CubeDx, CubeDy, cubeHeight)

\* C30 (as stated, refuted): isPointInside returns true exactly for the points of
\* the drawn volume (the base diamond, the top diamond cubeHeight above it and
\* the side faces between them) and false for every other point.
C30_Original == CubeTested => (conv.inside <=> InDrawnVolume)

\* What isPointInside accepts is drawn: it returns false outside the volume.
C30_InsideIsDrawn == (CubeTested /\ conv.inside) => InDrawnVolume

\* A point of a side face, near the right edge of the cube, is refused.
C30_WitnessRefused ==
  /\ CubeTested /\ ~conv.inside /\ InDrawnVolume
  /\ CubeDx > 0 /\ CubeDx < tileSize

-----------------------------------------------------------------------------
(* Claims about the scenes as a whole                                      *)

\* A scene is constructed and no handler is under way.
SceneReady == scene # "none" /\ pc = "ready"

\* The grid cell that contains the position of the character: in IsoScene the
\* tile whose diamond contains it, in TopDownScene the square it is in.
AgentCell ==
  IF scene = "IsoScene" THEN findTileAtScreenPosition(currentX, currentY)
  ELSE TopDownCell(currentX, currentY)

\* C31 (as stated, refuted): in every state reached by the construction of a
\* scene followed by clicks, update ticks and resizes, the grid cell containing
\* the position of the character is not an obstacle cell.
C31_Original == SceneReady => AgentCell \notin ObstacleCells

\* Until the first resize of IsoScene regenerates the obstacles, and always in
\* TopDownScene, the character is in no obstacle cell.
C31_BeforeRegeneration ==
  (SceneReady /\ (scene = "TopDownScene" \/ cubesGen <= 1)) =>
     AgentCell \notin ObstacleCells

\* A character that has walked away from its start cell, in a walkable cell.
C31_WitnessWalked ==
  /\ SceneReady /\ cubesGen <= 1
  /\ ~isMoving /\ arrived
  /\ Position # spawn
  /\ AgentCell \notin ObstacleCells
  /\ ObstacleCells # {}

\* A click of IsoScene on a cell that carries no obstacle.
WalkableClick ==
  JustClicked /\ scene = "IsoScene" /\ ~lastClick.isCube

\* The orthogonal neighbours of a cell, in the order East, West, South, North.
Orthogonal(c) ==
  << <<c[1] + 1, c[2]>>, <<c[1] - 1, c[2]>>,
     <<c[1], c[2] + 1>>, <<c[1], c[2] - 1>> >>

\* The neighbour of rank i is in bounds and carries no obstacle.
GoodNeighbour(c, i) ==
  LET n == Orthogonal(c)[i]
  IN  /\ n[1] >= 0 /\ n[1] < extendedGridSize
      /\ n[2] >= 0 /\ n[2] < extendedGridSize
      /\ n \notin ObstacleCells

\* The squared Euclidean distance between two cells.
CellDistance2(a, b) ==
  (a[1] - b[1]) * (a[1] - b[1]) + (a[2] - b[2]) * (a[2] - b[2])

\* The rank of the good neighbour nearest to the start cell, the first of the
\* order on a tie.
NearestRank(c, start) ==
  CHOOSE i \in 1..4 :
    /\ GoodNeighbour(c, i)
    /\ \A j \in 1..4 : GoodNeighbour(c, j) =>
         LET di == CellDistance2(Orthogonal(c)[i], start)
             dj == CellDistance2(Orthogonal(c)[j], start)
         IN  di < dj \/ (di = dj /\ i <= j)

\* C32: a click of IsoScene on a walkable cell that has an in-bounds walkable
\* orthogonal neighbour plans the path to the neighbour nearest to the start
\* cell of the agent (Euclidean distance, ties in the order East, West,
\* South, North), and the path it sends the agent along ends on that
\* neighbour and carries the clicked cell as final-facing target; the clicked
\* cell itself is the goal only when it has no such neighbour.
C32_NearestNeighbourGoal ==
  WalkableClick =>
    LET c == lastClick.target
        some == \E i \in 1..4 : GoodNeighbour(c, i)
    IN  /\ lastClick.queried
        /\ some => /\ lastClick.goal = Orthogonal(c)[NearestRank(c, lastClick.start)]
                   /\ lastClick.goal # c
        /\ ~some => lastClick.goal = c
        /\ lastClick.call = "moveAlongPath" =>
             /\ lastClick.waypoints[Len(lastClick.waypoints)] = lastClick.goal
             /\ lastClick.final = c
             /\ finalTargetPosition =
                  isoToScreen(c[1], c[2], tileSize)

\* A click on a walkable cell sends the agent to a neighbour that is not the
\* first of the order.
C32_Witness ==
  /\ WalkableClick /\ lastClick.call = "moveAlongPath"
  /\ \E i \in 2..4 : /\ GoodNeighbour(lastClick.target, i)
                     /\ lastClick.goal = Orthogonal(lastClick.target)[i]
  /\ GoodNeighbour(lastClick.target, 1)

\* Two neighbours are equally near and the earlier of the order is chosen.
C32_WitnessTie ==
  /\ WalkableClick /\ lastClick.call = "moveAlongPath"
  /\ \E i, j \in 1..4 :
       /\ i < j /\ GoodNeighbour(lastClick.target, i)
       /\ GoodNeighbour(lastClick.target, j)
       /\ lastClick.goal = Orthogonal(lastClick.target)[i]
       /\ CellDistance2(Orthogonal(lastClick.target)[i], lastClick.start) =
          CellDistance2(Orthogonal(lastClick.target)[j], lastClick.start)

\* A neighbour of the clicked cell carries an obstacle and is passed over.
C32_WitnessBlocked ==
  /\ WalkableClick /\ lastClick.call = "moveAlongPath"
  /\ \E i \in 1..4 : Orthogonal(lastClick.target)[i] \in ObstacleCells

\* Every neighbour of the clicked cell is blocked or outside the grid, and the
\* clicked cell is the goal.
C32_WitnessNoNeighbour ==
  /\ WalkableClick /\ lastClick.queried
  /\ \A i \in 1..4 : ~GoodNeighbour(lastClick.target, i)
  /\ lastClick.goal = lastClick.target

\* The cubes of obstacleCubes that carry the lightened colour: the selected
\* cube, when it is a cube of the current generation.
LightenedCubes ==
  IF selectedCube # Null /\ selectedCube[2] = cubesGen
  THEN {selectedCube[1]} \cap Range(obstacleCubes) ELSE {}

\* C33: in IsoScene selectedCube is null or a cube stored in obstacleCubes
\* (never a destroyed one), and at most one cube is lightened.
C33_Original ==
  (scene = "IsoScene" /\ pc = "ready") =>
    /\ \/ selectedCube = Null
       \/ /\ selectedCube[2] = cubesGen
          /\ selectedCube[1] \in Range(obstacleCubes)
    /\ Cardinality(LightenedCubes) <= 1

\* Between two regenerations of the cubes the selected cube is a stored one,
\* and right after a click it always is.
C33_UntilRegeneration ==
  (scene = "IsoScene" /\ pc = "ready" /\ selectedCube # Null) =>
    /\ selectedCube[2] <= cubesGen
    /\ selectedCube[2] = cubesGen => selectedCube[1] \in Range(obstacleCubes)
    /\ sceneOp = "handleClick" => selectedCube[2] = cubesGen

\* A cube is selected and the cubes are regenerated by a resize.
C33_WitnessStale ==
  /\ scene = "IsoScene" /\ pc = "ready" /\ selectedCube # Null
  /\ selectedCube[2] < cubesGen

\* C34: in IsoScene, after construction and after every updateScreenSize,
\* obstacleCubes holds exactly one cube per obstacle cell: as many cubes as
\* obstacle cells, no two on one cell, the cells of the cubes are the obstacle
\* cells, and the cube stored under the key of an obstacle cell has the grid
\* coordinates of that cell.
C34_OneCubePerObstacle ==
  (scene = "IsoScene" /\ pc = "ready") =>
    /\ Len(obstacleCubes) = Len(obstacles)
    /\ Cardinality(Range(obstacleCubes)) = Len(obstacleCubes)
    /\ Range(obstacleCubes) = ObstacleCells
    /\ \A i \in 1..Len(obstacles) : obstacleCubes[i] = obstacles[i]

\* The cubes of a regenerated obstacle set that differs from the one before,
\* on cells whose coordinates differ.
C34_Witness ==
  /\ scene = "IsoScene" /\ pc = "ready" /\ sceneOp = "updateScreenSize"
  /\ cubesGen >= 2
  /\ \E c \in Range(obstacleCubes) : c[1] # c[2]

\* The cubes right after construction.
C34_WitnessConstructed ==
  /\ scene = "IsoScene" /\ pc = "ready" /\ sceneOp = "constructor"
  /\ Len(obstacleCubes) >= 2

\* A resize that regenerates nothing leaves the cubes of the obstacles.
C34_WitnessKept ==
  /\ scene = "IsoScene" /\ pc = "ready" /\ sceneOp = "updateScreenSize"
  /\ cubesGen = 1 /\ obstacleCubes # <<>>

(* Claims about the path index *)

\* The agent is Moving along a stored path.
MovingOnPath == isMoving /\ path # <<>>

\* C35: whenever the agent is Moving with a non-empty path,
\* 0 <= currentPathIndex < path.length and the movement target is
\* path[currentPathIndex]; while the path is neither replaced nor cleared the
\* index stays or goes up by exactly one, and it goes up only in an update()
\* that puts the agent on the waypoint it was heading for.
C35_IndexFollowsPath ==
  /\ [](MovingOnPath =>
          /\ 0 <= currentPathIndex /\ currentPathIndex < Len(path)
          /\ <<targetX, targetY>> = path[currentPathIndex + 1])
  /\ [][(path # <<>> /\ path' = path /\ lastOp' # "moveAlongPath") =>
          \/ currentPathIndex' = currentPathIndex
          \/ /\ currentPathIndex' = currentPathIndex + 1
             /\ lastOp' = "update" /\ isMoving
             /\ <<currentX', currentY'>> = path[currentPathIndex + 1]
             /\ <<targetX', targetY'>> = path[currentPathIndex + 2]]_vars

\* The agent has reached the first waypoint of a path of two and heads for the
\* second.
C35_Witness ==
  /\ MovingOnPath /\ Len(path) = 2 /\ currentPathIndex = 1
  /\ <<targetX, targetY>> = path[2] /\ lastOp = "update"
  /\ Position # path[1]

\* A path of one waypoint: the index stays 0.
C35_WitnessSingle ==
  /\ MovingOnPath /\ Len(path) = 1 /\ currentPathIndex = 0 /\ lastOp = "update"
  /\ Position # pathStart

(* Claims about the idle agent *)

\* The agent of a scene is Idle.
IdleInScene == scene # "none" /\ ~isMoving

\* C36: whenever the agent of a scene is Idle (isMoving is false), after
\* any construction, clicks, ticks and resizes, its path is empty, its path
\* index is 0, its final-facing target is null and its current position is
\* its movement target.
C36_IdleIsAtRest ==
  IdleInScene =>
    /\ path = <<>>
    /\ currentPathIndex = 0
    /\ finalTargetPosition = Null
    /\ <<currentX, currentY>> = <<targetX, targetY>>

\* The agent of IsoScene is Idle after it walked a path that carried a
\* final-facing target.
C36_Witness ==
  /\ IdleInScene /\ scene = "IsoScene" /\ pc = "ready" /\ arrived
  /\ lastClick # Null /\ lastClick.call = "moveAlongPath" /\ lastClick.final # Null
  /\ Position # spawn

\* The agent is Idle right after construction.
C36_WitnessConstructed ==
  IdleInScene /\ pc = "ready" /\ sceneOp = "constructor"

\* The agent is Idle after a resize that followed a walk.
C36_WitnessResized ==
  /\ IdleInScene /\ pc = "ready" /\ sceneOp = "updateScreenSize" /\ arrived

(* Claims about the range of the facing angle *)

\* The facing angle lies in [-PI, PI].
FacingInRange == 0 - Pi <= currentRotationY /\ currentRotationY <= Pi

\* C37: after every call of update, the arriving one included, the current
\* facing angle currentRotationY lies in [-PI, PI].
C37_Original == lastOp = "update" => FacingInRange

\* An update in which the agent does not arrive leaves the facing angle in
\* [-PI, PI]; the arriving update leaves it on 0, PI/2, PI or 3PI/2, the last
\* of which is outside, until the next update brings it to -PI/2.
C37_ExceptArrival ==
  [][(lastOp' = "update" /\ cmds' = cmds) =>
       IF isMoving /\ ~isMoving'
       THEN currentRotationY' \in {0, Pi \div 2, Pi, (3 * Pi) \div 2}
       ELSE (0 - Pi <= currentRotationY' /\ currentRotationY' <= Pi)]_vars

\* The agent has just arrived and faces 3PI/2.
C37_WitnessArrived ==
  /\ lastOp = "update" /\ arrived /\ ~isMoving
  /\ currentRotationY = (3 * Pi) \div 2

\* The update after that arrival has brought the angle to -PI/2.
C37_WitnessNormalised ==
  /\ lastOp = "update" /\ arrived /\ ~isMoving
  /\ currentRotationY = 0 - (Pi \div 2)

(* Claims about moveAlongPath with an empty list *)

\* A call of moveAlongPath with an empty list of waypoints.
EmptyPathCall == lastOp' = "moveAlongPath(empty)" /\ cmds' = cmds + 1

\* C38: moveAlongPath called with an empty list of waypoints changes
\* nothing: the path, the path index, the movement target, the moving flag and
\* the final-facing target (and the position and the angles) are as they
\* were, so a path in flight goes on.
C38_EmptyPathIsNoOp ==
  [][EmptyPathCall =>
       /\ path' = path
       /\ currentPathIndex' = currentPathIndex
       /\ <<targetX', targetY'>> = <<targetX, targetY>>
       /\ isMoving' = isMoving
       /\ finalTargetPosition' = finalTargetPosition
       /\ <<currentX', currentY', currentRotationY', targetRotationY'>> =
            <<currentX, currentY, currentRotationY, targetRotationY>>]_vars

\* The empty list was passed while the agent was under way along a path with
\* a final-facing target.
C38_Witness ==
  /\ lastOp = "moveAlongPath(empty)"
  /\ isMoving /\ path # <<>> /\ finalTargetPosition # Null
  /\ Position # pathStart

\* The empty list was passed to an Idle agent, which stays Idle.
C38_WitnessIdle ==
  lastOp = "moveAlongPath(empty)" /\ ~isMoving /\ path = <<>>

=============================================================================
